---- MODULE Spec2Model ----
(***************************************************************************)
(* A model of inoliblist.py: the rate-limited, retrying remote access      *)
(* layer (get_github_api_response, check_rate_limiting,                    *)
(* get_json_from_url, determine_urlopen_retry) as a machine with an        *)
(* explicit call stack, and the folder classifier find_library as an       *)
(* operator over folder listings.                                          *)
(*                                                                         *)
(* Text is modelled as sequences.  File and folder names are sequences of  *)
(* one-character strings, so that str.endswith and re.fullmatch are        *)
(* computed on the characters.  Exception descriptions and URLs are        *)
(* sequences of tokens that never straddle the end of a pattern the code   *)
(* tests with str.startswith.                                              *)
(***************************************************************************)
EXTENDS Integers, Sequences, FiniteSets, TLC

VARIABLES
    stack,          \* the interpreter's call stack, innermost frame last
    ret,            \* what the callee that just ended handed to its caller
    last_api_requests_remaining_value,  \* the global of line 348
    only503,        \* every response of the running top-level call was a 503
    folder_listing, \* find_library's folder_listing argument
    verify,         \* find_library's verify argument
    library_found,  \* find_library's return value, "pending" before the call
    repository,     \* the repository find_library_folder scans
    scan,           \* find_library_folder's locals and its position
    requests,       \* the requests find_library_folder has dispatched, in order
    classified,     \* the folders find_library was applied to, in order
    non_library_folders_list,   \* the lines appended to the file of that name
    table,          \* the global of line 344, the rows collected so far
    verification_failed_list,   \* the lines appended to the file of that name
    run,            \* populate_table's position and the locals of its callees
    row,            \* populate_row's arguments, locals and position
    output_file     \* the file create_output_file writes, line 1453

vars == <<stack, ret, last_api_requests_remaining_value, only503,
          folder_listing, verify, library_found,
          repository, scan, requests, classified, non_library_folders_list,
          table, verification_failed_list, run, row, output_file>>

accessVars == <<stack, ret, last_api_requests_remaining_value, only503>>
libraryVars == <<folder_listing, verify, library_found>>
scannerVars == <<repository, scan, requests, classified, non_library_folders_list>>
tableVars == <<table, verification_failed_list, run, row, output_file>>

\* no call of find_library_folder has been made
ScannerIdle ==
    /\ repository = [root |-> <<>>, contents |-> <<>>]
    /\ scan = [pc |-> "idle"]
    /\ requests = <<>>
    /\ classified = <<>>
    /\ non_library_folders_list = <<>>

\* line 344 and no call of populate_table or populate_row: the table holds
\* its one blank row
TableIdle ==
    /\ table = << [repository_url |-> "", repository_name |-> <<>>,
                   library_path |-> <<>>, in_library_manager_index |-> ""] >>
    /\ verification_failed_list = <<>>
    /\ run = [pc |-> "idle"]
    /\ row = [pc |-> "idle"]
    /\ output_file = [exists |-> FALSE, rows |-> <<>>]

(***************************************************************************)
(* Bounds of the model.                                                    *)
(***************************************************************************)
\* longest folder listing handed to find_library
MaxListing == 3
\* largest remaining-requests value the remote reports
MaxRemaining == 1
\* frames the interpreter allows on the call stack before RecursionError
MaxDepth == 6
\* longest root folder listing of a repository find_library_folder scans
MaxRoot == 3
\* contents requests of one find_library_folder call that end in an exception
MaxFailures == 1
\* entries the remote puts on one page of a root folder listing
MaxPage == 2

(***************************************************************************)
(* Text helpers: str.startswith, str.endswith, case folding, re.fullmatch. *)
(***************************************************************************)
StartsWith(s, prefix) ==
    /\ Len(prefix) <= Len(s)
    /\ SubSeq(s, 1, Len(prefix)) = prefix

EndsWith(s, suffix) ==
    /\ Len(suffix) <= Len(s)
    /\ SubSeq(s, Len(s) - Len(suffix) + 1, Len(s)) = suffix

\* str.lower on the letters of one-character strings
LowerCase ==
    [c \in {"A", "B", "C", "D", "E", "F", "G", "H", "I", "J", "K", "L", "M",
            "N", "O", "P", "Q", "R", "S", "T", "U", "V", "W", "X", "Y", "Z"} |->
        CASE c = "A" -> "a" [] c = "B" -> "b" [] c = "C" -> "c" [] c = "D" -> "d"
          [] c = "E" -> "e" [] c = "F" -> "f" [] c = "G" -> "g" [] c = "H" -> "h"
          [] c = "I" -> "i" [] c = "J" -> "j" [] c = "K" -> "k" [] c = "L" -> "l"
          [] c = "M" -> "m" [] c = "N" -> "n" [] c = "O" -> "o" [] c = "P" -> "p"
          [] c = "Q" -> "q" [] c = "R" -> "r" [] c = "S" -> "s" [] c = "T" -> "t"
          [] c = "U" -> "u" [] c = "V" -> "v" [] c = "W" -> "w" [] c = "X" -> "x"
          [] c = "Y" -> "y" [] c = "Z" -> "z"]

\* the lower-case form of one character (re.IGNORECASE compares these)
Lower(c) == IF c \in DOMAIN LowerCase THEN LowerCase[c] ELSE c

\* A regular expression is a sequence of elements: a one-character string is
\* that literal character (an escaped "\." is the literal "."), "ANY" is the
\* wildcard ".", "ANYSTAR" is ".*" and "NODOTSTAR" is "[^\.]*".  The anchors
\* ^ at the start and $ at the end of a pattern add nothing to a full match
\* and are left out.  An anchor inside a pattern is kept: "END" is a $, which
\* holds where no character of the name is left, and "START" is a ^, which
\* holds where no character has been taken yet; every "START" the patterns
\* hold comes after a literal character, where it cannot hold.
RECURSIVE fullmatch(_, _, _)
fullmatch(regex, name, ignorecase) ==
    IF regex = <<>> THEN name = <<>>
    ELSE LET e == Head(regex)
             rest == Tail(regex)
         IN  CASE e = "ANYSTAR" ->
                    \E k \in 0..Len(name) :
                        fullmatch(rest, SubSeq(name, k + 1, Len(name)), ignorecase)
               [] e = "NODOTSTAR" ->
                    \E k \in 0..Len(name) :
                        /\ \A i \in 1..k : name[i] # "."
                        /\ fullmatch(rest, SubSeq(name, k + 1, Len(name)), ignorecase)
               [] e = "ANY" ->
                    /\ name # <<>>
                    /\ fullmatch(rest, Tail(name), ignorecase)
               [] e = "END" ->
                    /\ name = <<>>
                    /\ fullmatch(rest, name, ignorecase)
               [] e = "START" -> FALSE
               [] OTHER ->
                    /\ name # <<>>
                    /\ IF ignorecase THEN Lower(Head(name)) = Lower(e)
                                     ELSE Head(name) = e
                    /\ fullmatch(rest, Tail(name), ignorecase)

\* the regular expression ^.*\.<extension>$
DotSuffix(extension) == <<"ANYSTAR", ".">> \o extension

(***************************************************************************)
(* Configuration lists of the classifier.                                  *)
(***************************************************************************)
administrative_file_whitelist ==
    << <<".", "ANYSTAR">>,
       <<"NODOTSTAR">>,
       DotSuffix(<<"a", "d", "o", "c">>),
       DotSuffix(<<"b", "m", "p">>),
       DotSuffix(<<"f", "z", "z">>),
       DotSuffix(<<"h", "t", "m", "l">>),
       DotSuffix(<<"g", "i", "f">>),
       DotSuffix(<<"j", "p", "e", "g">>),
       DotSuffix(<<"j", "p", "g">>),
       DotSuffix(<<"j", "s", "o", "n">>),
       DotSuffix(<<"m", "d">>),
       DotSuffix(<<"m", "k">>),
       DotSuffix(<<"p", "n", "g">>),
       DotSuffix(<<"p", "d", "f">>),
       DotSuffix(<<"r", "s", "t">>),
       DotSuffix(<<"s", "l", "n">>),
       DotSuffix(<<"t", "e", "x", "t", "i", "l", "e">>),
       DotSuffix(<<"t", "x", "t">>),
       <<"t", "h", "u", "m", "b", "s", "ANY", "d", "b">>,
       DotSuffix(<<"v", "c", "x", "p", "r", "o", "j">>),
       DotSuffix(<<"v", "c", "x", "p", "r", "o", "j", "ANY",
                   "f", "i", "l", "t", "e", "r", "s">>),
       DotSuffix(<<"y", "a", "m", "l">>),
       DotSuffix(<<"y", "m", "l">>),
       DotSuffix(<<"z", "i", "p">>),
       <<"p", "l", "a", "t", "f", "o", "r", "m", "i", "o", "ANY", "i", "n", "i">> >>

header_file_extensions ==
    << <<".", "h">>, <<".", "H">>, <<".", "h", "h">>, <<".", "H", "h">>,
       <<".", "H", "H">>, <<".", "h", "p", "p">>, <<".", "H", "p", "p">>,
       <<".", "H", "P", "P">> >>

examples_folder_names ==
    << <<"e", "x", "a", "m", "p", "l", "e", "s">>,
       <<"e", "x", "a", "m", "p", "l", "e">> >>

\* line 121 of the source has no comma after r"^3dmodel.$", so that pattern
\* and r"^android$" are one pattern, "^3dmodel.$^android$"
library_subfolder_blacklist ==
    << <<".", "ANYSTAR">>,
       <<"3", "d", "m", "o", "d", "e", "l", "ANY", "END", "START", "a", "n", "d", "r", "o", "i", "d">>,
       <<"a", "n", "d", "r", "o", "i", "d", "ANY", "a", "p", "p">>,
       <<"a", "n", "d", "r", "o", "i", "d", "a", "p", "p">>, <<"a", "p", "p">>,
       <<"a", "p", "p", "s">>,
       <<"a", "r", "d", "u", "i", "n", "o", "ANY", "s", "k", "e", "t", "c", "h", "ANYSTAR">>,
       <<"a", "r", "d", "u", "i", "n", "o", "s", "k", "e", "t", "c", "h", "ANYSTAR">>,
       <<"a", "s", "s", "e", "t", "s">>, <<"b", "i", "n">>,
       <<"b", "o", "a", "r", "d">>, <<"b", "o", "m">>,
       <<"b", "o", "o", "t", "l", "o", "a", "d", "e", "r", "ANYSTAR">>,
       <<"c", "a", "d">>, <<"c", "m", "a", "k", "e", "ANYSTAR">>,
       <<"c", "o", "m", "p", "i", "l", "e", "d">>, <<"c", "o", "r", "e", "s">>,
       <<"d", "a", "t", "a">>,
       <<"ANYSTAR", "d", "a", "t", "a", "s", "h", "e", "e", "t", "ANYSTAR">>,
       <<"d", "e", "m", "o">>, <<"d", "e", "m", "o", "s">>,
       <<"d", "e", "p", "e", "n", "d", "e", "n", "c", "i", "e", "s">>,
       <<"d", "e", "s", "i", "g", "n">>,
       <<"d", "i", "a", "g", "r", "a", "m", "s">>, <<"d", "o", "c">>,
       <<"d", "o", "c", "s">>,
       <<"d", "o", "c", "u", "m", "e", "n", "t", "a", "t", "i", "o", "n">>,
       <<"d", "o", "c", "u", "m", "e", "n", "t", "s">>,
       <<"e", "a", "g", "l", "e">>, <<"e", "t", "c">>,
       <<"e", "x", "a", "m", "p", "l", "e">>,
       <<"e", "x", "a", "m", "p", "l", "e", "s">>, <<"e", "x", "t", "r", "a">>,
       <<"e", "x", "t", "r", "a", "s">>,
       <<"f", "i", "r", "m", "w", "a", "r", "e">>,
       <<"ANYSTAR", "f", "r", "i", "t", "z", "i", "n", "g", "ANYSTAR">>,
       <<"g", "e", "r", "b", "e", "r", "s">>,
       <<"g", "r", "a", "p", "h", "i", "c", "s">>,
       <<"h", "a", "r", "d", "w", "a", "r", "e">>, <<"h", "t", "m", "l">>,
       <<"i", "m", "a", "g", "e">>,
       <<"i", "m", "ANY", "g", "e", "n", "e", "s">>,
       <<"i", "m", "a", "g", "e", "n", "s">>, <<"i", "m", "a", "g", "e", "s">>,
       <<"i", "m", "g">>, <<"i", "m", "g", "s">>, <<"j", "a", "v", "a">>,
       <<"j", "s">>, <<"k", "i", "c", "a", "d", "ANYSTAR">>, <<"l", "i", "b">>,
       <<"m", "a", "t", "l", "a", "b">>, <<"m", "e", "d", "i", "a">>,
       <<"m", "i", "s", "c">>, <<"m", "o", "d", "e", "l", "s">>,
       <<"n", "o", "d", "e", ".", "j", "s">>, <<"n", "o", "d", "e", "j", "s">>,
       <<"o", "p", "e", "n", "s", "c", "a", "d">>, <<"o", "t", "h", "e", "r">>,
       <<"p", "c", "b", "ANYSTAR">>, <<"p", "i">>, <<"p", "d", "f", "ANYSTAR">>,
       <<"p", "h", "o", "t", "o", "s">>, <<"p", "h", "p">>,
       <<"p", "i", "c", "s">>, <<"p", "i", "c", "t", "u", "r", "e", "s">>,
       <<"p", "r", "e", "s", "e", "n", "t", "a", "t", "i", "o", "n">>,
       <<"p", "r", "o", "c", "e", "s", "s", "i", "n", "g">>,
       <<"p", "r", "o", "j", "e", "c", "t", "s", "e", "t", "t", "i", "n", "g", "s">>,
       <<"p", "y", "t", "h", "o", "n">>,
       <<"p", "y", "t", "h", "o", "n", "ANY", "c", "o", "d", "e", "ANYSTAR">>,
       <<"p", "y", "t", "h", "o", "n", "ANY", "s", "c", "r", "i", "p", "t", "ANYSTAR">>,
       <<"r", "a", "s", "p", "b", "e", "r", "r", "y">>,
       <<"r", "a", "s", "p", "b", "e", "r", "r", "y", "ANYSTAR", "p", "i">>,
       <<"r", "a", "s", "p", "i">>, <<"r", "e", "a", "d", "m", "e", "ANYSTAR">>,
       <<"r", "e", "f", "e", "r", "e", "n", "c", "e">>,
       <<"r", "e", "f", "e", "r", "e", "n", "c", "e", "s">>,
       <<"r", "e", "p", "o", "r", "t">>,
       <<"r", "e", "s", "o", "u", "r", "c", "e", "s">>, <<"r", "p", "i">>,
       <<"r", "u", "b", "y">>, <<"s", "a", "m", "p", "l", "e", "s">>,
       <<"s", "c", "h", "e", "m", "a", "t", "i", "c", "ANYSTAR">>,
       <<"s", "c", "r", "e", "e", "n", "s", "h", "o", "t", "ANY">>,
       <<"s", "c", "r", "i", "p", "t", "s">>, <<"s", "k", "e", "t", "c", "h">>,
       <<"s", "k", "e", "t", "c", "h", "_", "ANYSTAR">>,
       <<"ANYSTAR", "s", "k", "e", "t", "c", "h", "b", "o", "o", "k", "ANYSTAR">>,
       <<"s", "k", "e", "t", "c", "h", "e", "s">>,
       <<"s", "l", "i", "c", "3", "r">>,
       <<"s", "o", "l", "i", "d", "w", "o", "r", "k", "s">>, <<"s", "t", "l">>,
       <<"t", "e", "s", "t">>, <<"t", "e", "s", "t", "s">>,
       <<"t", "o", "o", "l", "s">>, <<"u", "n", "i", "t", "y">>,
       <<"u", "n", "i", "t", "y", "p", "a", "c", "k", "a", "g", "e", "ANYSTAR">>,
       <<"u", "t", "i", "l", "s">>, <<"v", "a", "r", "i", "a", "n", "t", "s">>,
       <<"w", "e", "b">>, <<"w", "e", "b", "s", "i", "t", "e">>,
       <<"w", "i", "k", "i">>, <<"w", "w", "w">> >>

\* the file names find_library compares with ==
library_dot_properties ==
    <<"l", "i", "b", "r", "a", "r", "y", ".",
      "p", "r", "o", "p", "e", "r", "t", "i", "e", "s">>
library_dot_json == <<"l", "i", "b", "r", "a", "r", "y", ".", "j", "s", "o", "n">>
keywords_dot_txt == <<"k", "e", "y", "w", "o", "r", "d", "s", ".", "t", "x", "t">>
dot_ino == <<".", "i", "n", "o">>
dot_pde == <<".", "p", "d", "e">>

(***************************************************************************)
(* Configuration of the remote access layer.                               *)
(***************************************************************************)
maximum_urlopen_retries == 5

check_rate_limiting_after_exception == <<"HTTPError", ": ", "HTTP Error 503">>

urlopen_retry_exceptions ==
    << <<"HTTPError", ": ", "HTTP Error 403">>,
       <<"HTTPError", ": ", "HTTP Error 502">>,
       check_rate_limiting_after_exception,
       <<"RemoteDisconnected">>,
       <<"ConnectionResetError">>,
       <<"ConnectionRefusedError">>,
       <<"<urlopen error [WinError 10061] No connection could be made because the target machine actively refused it>">> >>

\* the prefix determine_urlopen_retry tests before printing the token hint
unauthorized_hint_prefix == <<"urllib.error.", "HTTPError", ": ", "HTTP Error 401">>

(***************************************************************************)
(* Exceptions.  An exception is named by an identifier; class_name is      *)
(* exception.__class__.__name__ and exception_text is str(exception).      *)
(***************************************************************************)
\* what urlopen raises
UrlopenFailures ==
    {"HTTP403", "HTTP502", "HTTP503", "HTTP404", "HTTP401", "RemoteDisconnected",
     "ConnectionResetError", "ConnectionRefusedError", "URLError10061"}

class_name(exception) ==
    CASE exception \in {"HTTP403", "HTTP502", "HTTP503", "HTTP404", "HTTP401"} -> "HTTPError"
      [] exception = "URLError10061" -> "URLError"
      [] OTHER -> exception

exception_text(exception) ==
    CASE exception = "HTTP403" -> <<"HTTP Error 403", ": Forbidden">>
      [] exception = "HTTP502" -> <<"HTTP Error 502", ": Bad Gateway">>
      [] exception = "HTTP503" -> <<"HTTP Error 503", ": Service Unavailable">>
      [] exception = "HTTP404" -> <<"HTTP Error 404", ": Not Found">>
      [] exception = "HTTP401" -> <<"HTTP Error 401", ": Unauthorized">>
      [] exception = "RemoteDisconnected" ->
            <<"Remote end closed connection without response">>
      [] exception = "ConnectionResetError" ->
            <<"[Errno 104] Connection reset by peer">>
      [] exception = "ConnectionRefusedError" ->
            <<"[WinError 10061] No connection could be made because the target machine actively refused it">>
      [] exception = "URLError10061" ->
            <<"<urlopen error [WinError 10061] No connection could be made because the target machine actively refused it>">>
      [] exception = "JSONDecodeError" ->
            <<"Expecting value: line 1 column 1 (char 0)">>
      [] exception = "TimeoutError" ->
            <<"Maximum number of URL load retries exceeded">>
      [] OTHER -> <<"maximum recursion depth exceeded">>

\* line 683
exception_string(exception) ==
    <<class_name(exception), ": ">> \o exception_text(exception)

\* the retry test with the 502 pattern missing from the list
matches_retry_exception_Without502(exception) ==
    \E i \in 1..Len(urlopen_retry_exceptions) \ {2} :
        StartsWith(exception_string(exception), urlopen_retry_exceptions[i])

\* the for loop of lines 685-686: some retry pattern starts the description
matches_retry_exception(exception) ==
    \E i \in 1..Len(urlopen_retry_exceptions) :
        StartsWith(exception_string(exception), urlopen_retry_exceptions[i])

\* the rate check asked for after the 502 pattern instead of the 503 one
calls_for_rate_check_On502(exception) ==
    StartsWith(exception_string(exception), urlopen_retry_exceptions[2])

\* the rate check asked for after every failure that is tried again
calls_for_rate_check_EveryRetry(exception) == TRUE

\* line 689
calls_for_rate_check(exception) ==
    StartsWith(exception_string(exception), check_rate_limiting_after_exception)

\* line 698
prints_unauthorized_hint(exception) ==
    StartsWith(exception_string(exception), unauthorized_hint_prefix)

(***************************************************************************)
(* URLs.  A URL is its scheme and host in one token and the path as a      *)
(* sequence of tokens with the separators "/" as tokens of their own; the  *)
(* query string plays no part in the access layer and is left out.         *)
(***************************************************************************)
api_host == "https://api.github.com"

Url(host, path) == [host |-> host, path |-> path]

rate_limit_url == Url(api_host, <<"/", "rate_limit">>)

\* the requests get_github_api_response is called with
ApiRequests ==
    { <<"search", "/", "repositories">>,
      <<"repos", "/", "arduino", "/", "Arduino">>,
      <<"repos", "/", "arduino", "/", "Arduino", "/", "contents">> }

\* "https://api.github.com/" + request
api_url(request) == Url(api_host, <<"/">> \o request)

\* get_contributor_count's URL
contributors_url ==
    Url(api_host, <<"/", "repos", "/", "arduino", "/", "Arduino", "/", "contributors">>)

\* the URLs the program hands to get_json_from_url without a rate check
DirectUrls ==
    { Url("http://downloads.arduino.cc",
          <<"/", "libraries", "/", "library_index.json">>),
      Url("https://raw.githubusercontent.com",
          <<"/", "arduino", "/", "Arduino", "/", "master", "/", "/", "library.json">>) }

\* str.replace on token sequences: the occurrences of old, left to right and
\* not overlapping, become new
RECURSIVE Replace(_, _, _)
Replace(s, old, new) ==
    IF s = <<>> THEN <<>>
    ELSE IF StartsWith(s, old)
         THEN new \o Replace(SubSeq(s, Len(old) + 1, Len(s)), old, new)
         ELSE <<Head(s)>> \o Replace(Tail(s), old, new)

\* urllib.parse.quote on one token: a space is percent-encoded
quote(token) == IF token = " " THEN "%20" ELSE token

normalize_url(url) ==
    LET collapsed == Replace(Replace(url.path, <<"/", "/", "/">>, <<"/">>),
                             <<"/", "/">>, <<"/">>)
    IN  Url(url.host, [i \in 1..Len(collapsed) |-> quote(collapsed[i])])

\* url.startswith("https://api.github.com")
is_api_url(url) == url.host = api_host

\* url.startswith("https://api.github.com/search")
is_search_url(url) ==
    /\ url.host = api_host
    /\ Len(url.path) >= 2
    /\ url.path[1] = "/"
    /\ url.path[2] = "search"

\* lines 535-538
api_type_of(request) ==
    IF StartsWith(request, <<"search">>) THEN "search" ELSE "core"

(***************************************************************************)
(* Responses of the remote.  A header is <<>> when the response does not   *)
(* carry it (info()[...] is None) and <<value>> when it does.              *)
(***************************************************************************)
Link(rel, params) == [rel |-> rel, params |-> params]
Param(key, value) == [key |-> key, value |-> value]

\* values of the Link header: each is a sequence of links in header order
LinkHeaders ==
    { <<>>,
      << <<Link("next", <<Param("per_page", 1), Param("page", 2)>>),
           Link("last", <<Param("per_page", 1), Param("page", 3)>>)>> >>,
      << <<Link("prev", <<Param("page", 1)>>), Link("next", <<Param("page", 3)>>),
           Link("last", <<Param("page", 3)>>), Link("first", <<Param("page", 1)>>)>> >>,
      << <<Link("prev", <<Param("page", 2)>>), Link("first", <<Param("page", 1)>>)>> >>,
      << <<Link("last", <<Param("per_page", 1)>>)>> >> }

RemainingHeaders == {<<>>} \cup { <<n>> : n \in 0..MaxRemaining }

\* decoded bodies: falsy ("empty"), some other JSON value ("data"), or the
\* resources object of the rate_limit endpoint
Payloads(url) ==
    IF url = rate_limit_url
    THEN { [kind |-> "rate_limit", core |-> c, search |-> r] :
              c \in 0..MaxRemaining, r \in 0..MaxRemaining }
    ELSE { [kind |-> "empty"], [kind |-> "data"] }

Responses(url) ==
    { [json_data |-> j, link |-> l, remaining |-> h] :
        j \in Payloads(url),
        l \in (IF url = rate_limit_url THEN {<<>>} ELSE LinkHeaders),
        h \in RemainingHeaders }

\* page_count keeps the type the code gives it: the int 0 or 1, or the text
\* cut out of the header
IntValue(n) == [type |-> "int", value |-> n]
StrValue(n) == [type |-> "str", value |-> n]

\* any link at all taken for a further page
has_next_link_AnyLink(links) == links # <<>>

\* line 648: the header holds a link with rel="next"
has_next_link(links) == \E i \in 1..Len(links) : links[i].rel = "next"

\* lines 653-656: the first parameter named page of a link, if any
RECURSIVE page_parameter(_, _)
page_parameter(params, default) ==
    IF params = <<>> THEN default
    ELSE IF Head(params).key = "page" THEN StrValue(Head(params).value)
         ELSE page_parameter(Tail(params), default)

\* lines 650-657: the first link with rel="last" decides, then the loop breaks
RECURSIVE last_page(_, _)
last_page(links, default) ==
    IF links = <<>> THEN default
    ELSE IF Head(links).rel = "last"
         THEN page_parameter(Head(links).params, default)
         ELSE last_page(Tail(links), default)

\* lines 633-657 and 667: the dictionary get_json_from_url returns
result_of(response) ==
    IF response.json_data.kind = "empty"
    THEN [json_data |-> response.json_data,
          additional_pages |-> FALSE,
          page_count |-> IntValue(0)]
    ELSE [json_data |-> response.json_data,
          additional_pages |->
              response.link # <<>> /\ has_next_link(response.link[1]),
          page_count |->
              IF response.link = <<>> THEN IntValue(1)
              ELSE last_page(response.link[1], IntValue(1))]

\* the header written to the core entry whatever the URL
remaining_after_AlwaysCore(url, response, cache) ==
    IF is_api_url(url) /\ response.remaining # <<>>
    THEN [cache EXCEPT !.core = response.remaining[1]]
    ELSE cache

\* lines 659-665: the cache after a successful response
remaining_after(url, response, cache) ==
    IF is_api_url(url) /\ response.remaining # <<>>
    THEN IF is_search_url(url)
         THEN [cache EXCEPT !.search = response.remaining[1]]
         ELSE [cache EXCEPT !.core = response.remaining[1]]
    ELSE cache

(***************************************************************************)
(* The call stack.                                                         *)
(***************************************************************************)
NoReturn == [kind |-> "none"]

GithubApiFrame(request) ==
    [fn |-> "get_github_api_response", pc |-> "check_rate_limiting",
     request |-> request]

ContributorFrame ==
    [fn |-> "get_contributor_count", pc |-> "check_rate_limiting"]

\* cached: the cached value the call found; asked: it took the branch of
\* line 559 and sent a rate_limit request
RateFrame(api_type) ==
    [fn |-> "check_rate_limiting", pc |-> "start", api_type |-> api_type,
     cached |-> last_api_requests_remaining_value[api_type], asked |-> FALSE]

\* sleeps, only_retryable: bookkeeping about the attempts made so far
JsonFrame(url) ==
    [fn |-> "get_json_from_url", pc |-> "while", url |-> normalize_url(url),
     retry_count |-> 0, exception |-> "none", sleeps |-> 0,
     only_retryable |-> TRUE]

\* rechecks: the check_rate_limiting calls that returned to this call
RetryFrame(exception) ==
    [fn |-> "determine_urlopen_retry", pc |-> "start", exception |-> exception,
     rechecks |-> <<>>]

Top == stack[Len(stack)]
Popped == SubSeq(stack, 1, Len(stack) - 1)
WithTop(frame) == [stack EXCEPT ![Len(stack)] = frame]

Running(fn, pc) ==
    /\ stack # <<>>
    /\ Top.fn = fn
    /\ Top.pc = pc

\* A call: the caller moves to the point after the call and the callee's
\* frame is pushed; with the stack full the interpreter raises
\* RecursionError at the call instead.
Call(caller, callee) ==
    IF Len(stack) < MaxDepth
    THEN /\ stack' = Append(WithTop(caller), callee)
         /\ ret' = NoReturn
    ELSE /\ stack' = WithTop(caller)
         /\ ret' = [kind |-> "raise", from |-> "interpreter",
                    exception |-> "RecursionError", hint |-> FALSE]

(***************************************************************************)
(* Entry points: the program calls into the access layer when no call is   *)
(* running.  What the previous call handed back stays in ret until then.   *)
(***************************************************************************)
LibraryIdle ==
    /\ UNCHANGED <<folder_listing, verify, library_found>>
    /\ UNCHANGED scannerVars
    /\ UNCHANGED tableVars

Enter(frame) ==
    /\ stack = <<>>
    /\ stack' = <<frame>>
    /\ ret' = NoReturn
    /\ only503' = TRUE
    /\ UNCHANGED last_api_requests_remaining_value
    /\ LibraryIdle

CallGetGithubApiResponse ==
    \E request \in ApiRequests : Enter(GithubApiFrame(request))

CallGetContributorCount == Enter(ContributorFrame)

CallGetJsonFromUrl ==
    \E url \in DirectUrls : Enter(JsonFrame(url))

(***************************************************************************)
(* get_github_api_response, lines 522-546.                                 *)
(***************************************************************************)
\* line 539
ApiCheckRate ==
    /\ Running("get_github_api_response", "check_rate_limiting")
    /\ Call([Top EXCEPT !.pc = "get_json_from_url"],
            RateFrame(api_type_of(Top.request)))
    /\ UNCHANGED <<last_api_requests_remaining_value, only503>>
    /\ LibraryIdle

\* line 541, the call
ApiFetch ==
    /\ Running("get_github_api_response", "get_json_from_url")
    /\ ret.kind = "return"
    /\ Call([Top EXCEPT !.pc = "return"], JsonFrame(api_url(Top.request)))
    /\ UNCHANGED <<last_api_requests_remaining_value, only503>>
    /\ LibraryIdle

\* line 541, the return
ApiReturn ==
    /\ Running("get_github_api_response", "return")
    /\ ret.kind = "return"
    /\ stack' = Popped
    /\ ret' = [ret EXCEPT !.from = "get_github_api_response"]
    /\ UNCHANGED <<last_api_requests_remaining_value, only503>>
    /\ LibraryIdle

(***************************************************************************)
(* get_contributor_count, lines 1413-1433.                                 *)
(***************************************************************************)
\* line 1422
ContributorCheckRate ==
    /\ Running("get_contributor_count", "check_rate_limiting")
    /\ Call([Top EXCEPT !.pc = "get_json_from_url"], RateFrame("core"))
    /\ UNCHANGED <<last_api_requests_remaining_value, only503>>
    /\ LibraryIdle

\* line 1426
ContributorFetch ==
    /\ Running("get_contributor_count", "get_json_from_url")
    /\ ret.kind = "return"
    /\ Call([Top EXCEPT !.pc = "return"], JsonFrame(contributors_url))
    /\ UNCHANGED <<last_api_requests_remaining_value, only503>>
    /\ LibraryIdle

\* line 1429
ContributorReturn ==
    /\ Running("get_contributor_count", "return")
    /\ ret.kind = "return"
    /\ stack' = Popped
    /\ ret' = [kind |-> "return", from |-> "get_contributor_count",
               count |-> <<ret.result.page_count.value>>]
    /\ UNCHANGED <<last_api_requests_remaining_value, only503>>
    /\ LibraryIdle

\* lines 1430-1433: the two exceptions the function turns into ""
ContributorUnknown ==
    /\ Running("get_contributor_count", "return")
    /\ ret.kind = "raise"
    /\ ret.exception \in {"JSONDecodeError", "TimeoutError"}
    /\ stack' = Popped
    /\ ret' = [kind |-> "return", from |-> "get_contributor_count",
               count |-> <<>>]
    /\ UNCHANGED <<last_api_requests_remaining_value, only503>>
    /\ LibraryIdle

(***************************************************************************)
(* check_rate_limiting, lines 549-592.                                     *)
(***************************************************************************)
RateReturn(frame) ==
    [kind |-> "return", from |-> "check_rate_limiting",
     api_type |-> frame.api_type, cached |-> frame.cached, asked |-> frame.asked]

\* line 559, the cached value is not 0: nothing to do
RateSkip ==
    /\ Running("check_rate_limiting", "start")
    /\ last_api_requests_remaining_value[Top.api_type] # 0
    /\ stack' = Popped
    /\ ret' = RateReturn(Top)
    /\ UNCHANGED <<last_api_requests_remaining_value, only503>>
    /\ LibraryIdle

\* lines 559-563: the cached value is 0, ask the rate_limit endpoint
RateAsk ==
    /\ Running("check_rate_limiting", "start")
    /\ last_api_requests_remaining_value[Top.api_type] = 0
    /\ Call([Top EXCEPT !.pc = "update", !.asked = TRUE], JsonFrame(rate_limit_url))
    /\ UNCHANGED <<last_api_requests_remaining_value, only503>>
    /\ LibraryIdle

\* the answer for core taken for both classes
remaining_from_rate_limit_CoreForBoth(json_data) ==
    [search |-> json_data.core, core |-> json_data.core]

\* lines 565-566
remaining_from_rate_limit(json_data) ==
    [search |-> json_data.search, core |-> json_data.core]

\* lines 565-573 and 591-592: the answer shows requests remaining
RateAvailable ==
    /\ Running("check_rate_limiting", "update")
    /\ ret.kind = "return"
    /\ remaining_from_rate_limit(ret.result.json_data)[Top.api_type] # 0
    /\ last_api_requests_remaining_value' =
            remaining_from_rate_limit(ret.result.json_data)
    /\ stack' = Popped
    /\ ret' = RateReturn(Top)
    /\ UNCHANGED only503
    /\ LibraryIdle

\* lines 565-579: the answer shows the allowance used up
RateExhausted ==
    /\ Running("check_rate_limiting", "update")
    /\ ret.kind = "return"
    /\ remaining_from_rate_limit(ret.result.json_data)[Top.api_type] = 0
    /\ last_api_requests_remaining_value' =
            remaining_from_rate_limit(ret.result.json_data)
    /\ stack' = WithTop([Top EXCEPT !.pc = "wait"])
    /\ ret' = NoReturn
    /\ UNCHANGED only503
    /\ LibraryIdle

\* lines 580-590: the wait loop runs until the reset time, then the
\* function calls itself
RateWaitAndRecheck ==
    /\ Running("check_rate_limiting", "wait")
    /\ Call([Top EXCEPT !.pc = "return"], RateFrame(Top.api_type))
    /\ UNCHANGED <<last_api_requests_remaining_value, only503>>
    /\ LibraryIdle

\* after line 590
RateRechecked ==
    /\ Running("check_rate_limiting", "return")
    /\ ret.kind = "return"
    /\ stack' = Popped
    /\ ret' = RateReturn(Top)
    /\ UNCHANGED <<last_api_requests_remaining_value, only503>>
    /\ LibraryIdle

(***************************************************************************)
(* get_json_from_url, lines 595-673.                                       *)
(***************************************************************************)
\* what a get_json_from_url call raises, with the bookkeeping of its frame
JsonRaise(frame, exception, hint) ==
    [kind |-> "raise", from |-> "get_json_from_url", exception |-> exception,
     hint |-> hint, url |-> frame.url, attempts |-> frame.retry_count,
     sleeps |-> frame.sleeps, only_retryable |-> frame.only_retryable]

\* lines 609-624: one more attempt, the request goes out
JsonDispatch ==
    /\ Running("get_json_from_url", "while")
    /\ Top.retry_count <= maximum_urlopen_retries
    /\ stack' = WithTop([Top EXCEPT !.retry_count = @ + 1, !.pc = "urlopen"])
    /\ ret' = NoReturn
    /\ UNCHANGED <<last_api_requests_remaining_value, only503>>
    /\ LibraryIdle

\* line 673: the loop ran out
JsonGiveUp ==
    /\ Running("get_json_from_url", "while")
    /\ Top.retry_count > maximum_urlopen_retries
    /\ stack' = Popped
    /\ ret' = JsonRaise(Top, "TimeoutError", FALSE)
    /\ UNCHANGED <<last_api_requests_remaining_value, only503>>
    /\ LibraryIdle

\* lines 624 and 668-669: urlopen raises, the handler asks
\* determine_urlopen_retry
JsonFail ==
    /\ Running("get_json_from_url", "urlopen")
    /\ \E exception \in UrlopenFailures :
          /\ Call([Top EXCEPT !.pc = "except", !.exception = exception,
                              !.only_retryable =
                                  @ /\ matches_retry_exception(exception)],
                  RetryFrame(exception))
          /\ only503' = (only503 /\ exception = "HTTP503")
    /\ UNCHANGED last_api_requests_remaining_value
    /\ LibraryIdle

\* lines 626-631 and 668-669: the body does not decode; the exception is
\* raised again inside the try block and reaches the same handler
JsonUndecodable ==
    /\ Running("get_json_from_url", "urlopen")
    /\ Call([Top EXCEPT !.pc = "except", !.exception = "JSONDecodeError",
                        !.only_retryable =
                            @ /\ matches_retry_exception("JSONDecodeError")],
            RetryFrame("JSONDecodeError"))
    /\ only503' = FALSE
    /\ UNCHANGED last_api_requests_remaining_value
    /\ LibraryIdle

\* lines 624-667: a response that decodes
JsonSuccess ==
    /\ Running("get_json_from_url", "urlopen")
    /\ \E response \in Responses(Top.url) :
          /\ last_api_requests_remaining_value' =
                remaining_after(Top.url, response, last_api_requests_remaining_value)
          /\ ret' = [kind |-> "return", from |-> "get_json_from_url",
                     result |-> result_of(response),
                     url |-> Top.url, response |-> response,
                     before |-> last_api_requests_remaining_value,
                     attempts |-> Top.retry_count, sleeps |-> Top.sleeps]
    /\ stack' = Popped
    /\ only503' = FALSE
    /\ LibraryIdle

\* line 669: determine_urlopen_retry said True, back to the loop test (the
\* name exception is unbound when the handler ends)
JsonRetry ==
    /\ Running("get_json_from_url", "except")
    /\ ret.kind = "return"
    /\ ret.retry
    /\ stack' = WithTop([Top EXCEPT !.pc = "while", !.exception = "none",
                                    !.sleeps = IF ret.slept THEN @ + 1 ELSE @])
    /\ ret' = NoReturn
    /\ UNCHANGED <<last_api_requests_remaining_value, only503>>
    /\ LibraryIdle

\* lines 669-670: determine_urlopen_retry said False
JsonReraise ==
    /\ Running("get_json_from_url", "except")
    /\ ret.kind = "return"
    /\ ~ret.retry
    /\ stack' = Popped
    /\ ret' = JsonRaise(Top, Top.exception, ret.hint)
    /\ UNCHANGED <<last_api_requests_remaining_value, only503>>
    /\ LibraryIdle

\* an exception raised inside the handler leaves the function
JsonPropagate ==
    /\ Running("get_json_from_url", "except")
    /\ ret.kind = "raise"
    /\ stack' = Popped
    /\ ret' = JsonRaise(Top, ret.exception, ret.hint)
    /\ UNCHANGED <<last_api_requests_remaining_value, only503>>
    /\ LibraryIdle

(***************************************************************************)
(* determine_urlopen_retry, lines 676-701.                                 *)
(***************************************************************************)
RetryReturn(frame, retry, slept) ==
    [kind |-> "return", from |-> "determine_urlopen_retry", retry |-> retry,
     slept |-> slept, exception |-> frame.exception,
     hint |-> (~retry /\ prints_unauthorized_hint(frame.exception)),
     rechecks |-> frame.rechecks]

\* lines 685-686 and 697-701: no pattern matches
RetryRefuse ==
    /\ Running("determine_urlopen_retry", "start")
    /\ ~matches_retry_exception(Top.exception)
    /\ stack' = Popped
    /\ ret' = RetryReturn(Top, FALSE, FALSE)
    /\ UNCHANGED <<last_api_requests_remaining_value, only503>>
    /\ LibraryIdle

\* lines 686-689: a pattern matches and it is not the one of line 33
RetryPlain ==
    /\ Running("determine_urlopen_retry", "start")
    /\ matches_retry_exception(Top.exception)
    /\ ~calls_for_rate_check(Top.exception)
    /\ stack' = WithTop([Top EXCEPT !.pc = "sleep"])
    /\ ret' = NoReturn
    /\ UNCHANGED <<last_api_requests_remaining_value, only503>>
    /\ LibraryIdle

\* lines 689-692
RetryCheckCore ==
    /\ Running("determine_urlopen_retry", "start")
    /\ matches_retry_exception(Top.exception)
    /\ calls_for_rate_check(Top.exception)
    /\ Call([Top EXCEPT !.pc = "check_search"], RateFrame("core"))
    /\ UNCHANGED <<last_api_requests_remaining_value, only503>>
    /\ LibraryIdle

Recheck(r) == [api_type |-> r.api_type, cached |-> r.cached, asked |-> r.asked]

\* line 693
RetryCheckSearch ==
    /\ Running("determine_urlopen_retry", "check_search")
    /\ ret.kind = "return"
    /\ Call([Top EXCEPT !.pc = "checked", !.rechecks = Append(@, Recheck(ret))],
            RateFrame("search"))
    /\ UNCHANGED <<last_api_requests_remaining_value, only503>>
    /\ LibraryIdle

\* after line 693
RetryChecked ==
    /\ Running("determine_urlopen_retry", "checked")
    /\ ret.kind = "return"
    /\ stack' = WithTop([Top EXCEPT !.pc = "sleep",
                                    !.rechecks = Append(@, Recheck(ret))])
    /\ ret' = NoReturn
    /\ UNCHANGED <<last_api_requests_remaining_value, only503>>
    /\ LibraryIdle

\* lines 694-695
RetrySleep ==
    /\ Running("determine_urlopen_retry", "sleep")
    /\ stack' = Popped
    /\ ret' = RetryReturn(Top, TRUE, TRUE)
    /\ UNCHANGED <<last_api_requests_remaining_value, only503>>
    /\ LibraryIdle

(***************************************************************************)
(* An exception that reaches a frame with no handler for it ends the       *)
(* frame's call and goes on to its caller.                                 *)
(***************************************************************************)
Catches(frame, exception) ==
    \/ frame.fn = "get_json_from_url"
    \/ /\ frame.fn = "get_contributor_count"
       /\ frame.pc = "return"
       /\ exception \in {"JSONDecodeError", "TimeoutError"}

Propagate ==
    /\ stack # <<>>
    /\ ret.kind = "raise"
    /\ ~Catches(Top, ret.exception)
    /\ stack' = Popped
    /\ ret' = [kind |-> "raise", from |-> Top.fn, exception |-> ret.exception,
               hint |-> ret.hint]
    /\ UNCHANGED <<last_api_requests_remaining_value, only503>>
    /\ LibraryIdle

(***************************************************************************)
(* The access layer as a whole.                                            *)
(***************************************************************************)
Init ==
    /\ stack = <<>>
    /\ ret = NoReturn
    /\ last_api_requests_remaining_value = [search |-> 0, core |-> 0]
    /\ only503 = TRUE
    /\ folder_listing = <<>>
    /\ verify = FALSE
    /\ library_found = "pending"
    /\ ScannerIdle
    /\ TableIdle

Next ==
    \/ CallGetGithubApiResponse
    \/ CallGetContributorCount
    \/ CallGetJsonFromUrl
    \/ ApiCheckRate
    \/ ApiFetch
    \/ ApiReturn
    \/ ContributorCheckRate
    \/ ContributorFetch
    \/ ContributorReturn
    \/ ContributorUnknown
    \/ RateSkip
    \/ RateAsk
    \/ RateAvailable
    \/ RateExhausted
    \/ RateWaitAndRecheck
    \/ RateRechecked
    \/ JsonDispatch
    \/ JsonGiveUp
    \/ JsonFail
    \/ JsonUndecodable
    \/ JsonSuccess
    \/ JsonRetry
    \/ JsonReraise
    \/ JsonPropagate
    \/ RetryRefuse
    \/ RetryPlain
    \/ RetryCheckCore
    \/ RetryCheckSearch
    \/ RetryChecked
    \/ RetrySleep
    \/ Propagate

Spec == Init /\ [][Next]_vars

(***************************************************************************)
(* Properties of the access layer.                                         *)
(***************************************************************************)
Ended(fn) == ret.kind # "none" /\ ret.from = fn

\* the API class of the request a frame of get_github_api_response or
\* get_contributor_count makes
ClassOfCaller(frame) ==
    IF frame.fn = "get_github_api_response"
    THEN api_type_of(frame.request)
    ELSE "core"

\* a request of get_github_api_response or get_contributor_count is out
\* while the cached value of its class is 0
DispatchedOnEmptyBudget ==
    \E i \in 2..Len(stack) :
        /\ stack[i].fn = "get_json_from_url"
        /\ stack[i].pc = "urlopen"
        /\ stack[i - 1].fn \in {"get_github_api_response", "get_contributor_count"}
        /\ last_api_requests_remaining_value[ClassOfCaller(stack[i - 1])] = 0

\* C1: every API request sent through get_github_api_response or
\* get_contributor_count goes out with a cached remaining value above 0 for
\* its class; the check_rate_limiting call made after a wait finds the cached
\* value still 0, so that it asks the rate_limit endpoint again; and a
\* check_rate_limiting call that asked returns only with a value above 0.
C1_NoRequestOnEmptyBudget ==
    /\ ~DispatchedOnEmptyBudget
    /\ \A i \in 2..Len(stack) :
          (/\ stack[i].fn = "check_rate_limiting"
           /\ stack[i].pc = "start"
           /\ stack[i - 1].fn = "check_rate_limiting")
          => last_api_requests_remaining_value[stack[i].api_type] = 0
    /\ (ret.kind = "return" /\ ret.from = "check_rate_limiting")
          => last_api_requests_remaining_value[ret.api_type] > 0

\* C2: a get_json_from_url call whose attempts all failed with a failure
\* that matches a retry pattern ends with TimeoutError, after
\* maximum_urlopen_retries + 1 attempts and one sleep after each.
C2_RetryableExhausts ==
    (ret.kind = "raise" /\ ret.from = "get_json_from_url" /\ ret.only_retryable)
    => /\ ret.exception = "TimeoutError"
       /\ ret.attempts = maximum_urlopen_retries + 1
       /\ ret.sleeps = maximum_urlopen_retries + 1

\* C3: a get_json_from_url call that the remote answered with nothing but
\* HTTP 503, the rate_limit requests included, ends with TimeoutError.
C3_ThrottledEndsInTimeout ==
    (stack = <<>> /\ Ended("get_json_from_url") /\ only503)
    => (ret.kind = "raise" /\ ret.exception = "TimeoutError")

\* what determine_urlopen_retry hands back: True after a sleep exactly for
\* the failures that match a retry pattern, 502 among them and 404 not
RetryAnswer ==
    (ret.kind = "return" /\ ret.from = "determine_urlopen_retry")
    => /\ ret.retry <=> matches_retry_exception(ret.exception)
       /\ ret.slept <=> ret.retry
       /\ ret.exception = "HTTP404" => (~ret.retry /\ ~ret.slept)
       /\ ret.exception = "HTTP502" => (ret.retry /\ ret.slept)

\* a get_json_from_url call that met a failure matching no pattern is in its
\* handler: it is not back in the loop and has no request out
NoAttemptAfterPermanentFailure ==
    \A i \in 1..Len(stack) :
        (stack[i].fn = "get_json_from_url" /\ ~stack[i].only_retryable)
        => stack[i].pc = "except"

\* determine_urlopen_retry has just said False to get_json_from_url
RetryRefused ==
    /\ Running("get_json_from_url", "except")
    /\ ret.kind = "return"
    /\ ~ret.retry

\* the step from RetryRefused raises the failure of the attempt
ReraisesAtOnce ==
    RetryRefused
    => /\ stack' = Popped
       /\ ret'.kind = "raise"
       /\ ret'.exception = ret.exception
       /\ ret'.attempts = Top.retry_count
       /\ ret'.sleeps = Top.retry_count - 1

C5_UnauthorizedHintPrinted ==
    (ret.kind = "raise" /\ ret.from = "get_json_from_url"
        /\ ret.exception = "HTTP401")
    => ret.hint

Throttled(exception) == exception = "HTTP503"

\* determine_urlopen_retry slept for a throttling failure
SleptAfterThrottling ==
    /\ ret.kind = "return"
    /\ ret.from = "determine_urlopen_retry"
    /\ ret.slept
    /\ Throttled(ret.exception)

\* C6 as claimed: before the sleep after a throttling failure a rate_limit
\* request was sent for core and for search, whatever the cached values.
C6_RecheckAlwaysAsksRemote ==
    SleptAfterThrottling
    => \A c \in {"core", "search"} :
          \E i \in 1..Len(ret.rechecks) :
              ret.rechecks[i].api_type = c /\ ret.rechecks[i].asked

RechecksBothInOrder(rechecks) ==
    /\ Len(rechecks) = 2
    /\ rechecks[1].api_type = "core"
    /\ rechecks[2].api_type = "search"
    /\ \A i \in 1..2 : rechecks[i].asked <=> rechecks[i].cached = 0

\* C6 as amended: before the sleep after a throttling failure
\* check_rate_limiting was called for core and then for search, and each
\* call sent a rate_limit request exactly when the cached value of its class
\* was 0 at the call.
C6_RecheckCallsBothClasses ==
    /\ SleptAfterThrottling => RechecksBothInOrder(ret.rechecks)
    /\ \A i \in 1..Len(stack) :
          (/\ stack[i].fn = "determine_urlopen_retry"
           /\ stack[i].pc = "sleep"
           /\ Throttled(stack[i].exception))
          => RechecksBothInOrder(stack[i].rechecks)

C6_Witness ==
    /\ SleptAfterThrottling
    /\ ret.rechecks[1].asked
    /\ ~ret.rechecks[2].asked

\* the links of a response's Link header, none when the header is absent
LinksOf(response) == IF response.link = <<>> THEN <<>> ELSE response.link[1]

\* the page number in the first link with rel="last", 1 when there is none
LastPageNumber(links) ==
    LET lasts == { i \in 1..Len(links) : links[i].rel = "last" }
    IN  IF lasts = {} THEN 1
        ELSE LET first == CHOOSE i \in lasts : \A j \in lasts : i <= j
                 pages == { k \in 1..Len(links[first].params) :
                              links[first].params[k].key = "page" }
             IN  IF pages = {} THEN 1
                 ELSE links[first].params[
                        CHOOSE k \in pages : \A m \in pages : k <= m].value

\* C7: a result of get_json_from_url has additional_pages False and
\* page_count 0 for an empty payload; for any other payload additional_pages
\* says whether the Link header has a "next" relation, and page_count is the
\* page number of the "last" relation, 1 when there is none.
C7_ResultMatchesResponse ==
    (ret.kind = "return" /\ ret.from = "get_json_from_url")
    => IF ret.response.json_data.kind = "empty"
       THEN /\ ret.result.additional_pages = FALSE
            /\ ret.result.page_count.value = 0
       ELSE /\ ret.result.additional_pages <=>
                  \E i \in 1..Len(LinksOf(ret.response)) :
                      LinksOf(ret.response)[i].rel = "next"
            /\ ret.result.page_count.value = LastPageNumber(LinksOf(ret.response))

C7_Witness ==
    /\ ret.kind = "return"
    /\ ret.from = "get_json_from_url"
    /\ ret.response.json_data.kind = "data"
    /\ ret.result.additional_pages
    /\ ret.result.page_count.value = 3

SearchUrls == { api_url(<<"search", "/", "repositories">>) }

\* the class of a URL of the API, "none" for any other URL
ClassOfUrl(url) ==
    CASE url \in SearchUrls -> "search"
      [] url.host = api_host -> "core"
      [] OTHER -> "none"

\* C8: a successful response to an API request of class c that carries the
\* remaining-requests header sets the cached value of c to the header's value
\* and leaves the other class's value as it was; a response without the
\* header, or from a URL outside the API, changes neither.
C8_ResponseUpdatesOwnClass ==
    (ret.kind = "return" /\ ret.from = "get_json_from_url")
    => LET c == ClassOfUrl(ret.url)
           header == ret.response.remaining
       IN  \A k \in {"search", "core"} :
              last_api_requests_remaining_value[k] =
                  IF k = c /\ header # <<>> THEN header[1] ELSE ret.before[k]

C8_Witness ==
    /\ ret.kind = "return"
    /\ ret.from = "get_json_from_url"
    /\ ret.url \in SearchUrls
    /\ ret.response.remaining = <<0>>
    /\ ret.before = [search |-> 1, core |-> 1]
    /\ last_api_requests_remaining_value = [search |-> 0, core |-> 1]

(***************************************************************************)
(* Folder entries the classifier is exercised on.                          *)
(***************************************************************************)
File(name) == [type |-> "file", name |-> name]
Dir(name) == [type |-> "dir", name |-> name]

FolderItems ==
    { File(library_dot_properties),
      File(library_dot_json),
      File(keywords_dot_txt),
      File(<<"l", "i", "b", ".", "h">>),
      File(<<"L", "i", "b", ".", "H", "P", "P">>),
      File(<<"m", "a", "i", "n", ".", "i", "n", "o">>),
      File(<<"o", "l", "d", ".", "p", "d", "e">>),
      File(<<"R", "E", "A", "D", "M", "E", ".", "m", "d">>),
      File(<<"L", "I", "C", "E", "N", "S", "E">>),
      File(<<"m", "a", "i", "n", ".", "c", "p", "p">>),
      File(<<".", "h">>),
      File(<<".", "i", "n", "o">>),
      Dir(<<"e", "x", "a", "m", "p", "l", "e", "s">>),
      Dir(<<"E", "x", "a", "m", "p", "l", "e">>),
      Dir(<<"l", "i", "b", ".", "h">>) }

FolderListings == UNION { [1..n -> FolderItems] : n \in 0..MaxListing }

(***************************************************************************)
(* Repositories the scanner is exercised on: a root folder listing whose   *)
(* entries have different names, and for each directory of the root what   *)
(* the remote answers for its contents, as a sequence of pages.            *)
(***************************************************************************)
RootItems ==
    { File(<<"R", "E", "A", "D", "M", "E", ".", "m", "d">>),
      File(<<"L", "I", "C", "E", "N", "S", "E">>),
      File(<<"m", "a", "i", "n", ".", "c", "p", "p">>),
      File(<<"l", "i", "b", ".", "h">>),
      Dir(<<"T", "a", "l", "k", "i", "e">>),
      Dir(<<"f", "i", "r", "m", "w", "a", "r", "e">>),
      Dir(<<"D", "o", "c", "s">>),
      Dir(<<"a", "n", "d", "r", "o", "i", "d">>) }

\* the header file a subfolder of that name may hold
HeaderIn(folder) ==
    CASE folder = <<"T", "a", "l", "k", "i", "e">> ->
            <<"T", "a", "l", "k", "i", "e", ".", "h">>
      [] folder = <<"f", "i", "r", "m", "w", "a", "r", "e">> ->
            <<"S", "p", "a", "r", "k", "J", "s", "o", "n", ".", "h">>
      [] OTHER -> <<"l", "i", "b", ".", "h">>

\* what a subfolder of that name may hold: a header alone; a sketch on the
\* first page and a header on the second; an administrative file next to a
\* directory of its own.  The folders firmware and Docs hold a header alone.
SubfolderPages(folder) ==
    IF folder \in {<<"f", "i", "r", "m", "w", "a", "r", "e">>, <<"D", "o", "c", "s">>}
    THEN { << <<File(HeaderIn(folder))>> >> }
    ELSE { << <<File(HeaderIn(folder))>> >>,
           << <<File(<<"m", "a", "i", "n", ".", "i", "n", "o">>)>>,
              <<File(HeaderIn(folder))>> >>,
           << <<File(<<"R", "E", "A", "D", "M", "E", ".", "m", "d">>),
                Dir(<<"e", "x", "a", "m", "p", "l", "e", "s">>)>> >> }

RootListings ==
    { listing \in UNION { [1..n -> RootItems] : n \in 0..MaxRoot } :
        \A i, j \in 1..Len(listing) :
            i < j => listing[i].name # listing[j].name }

DirNames(listing) ==
    { listing[i].name : i \in { k \in 1..Len(listing) : listing[k].type = "dir" } }

Repositories ==
    UNION { { [root |-> listing, contents |-> pages] :
                pages \in { f \in [DirNames(listing) ->
                                     UNION { SubfolderPages(d) : d \in DirNames(listing) }] :
                               \A d \in DirNames(listing) : f[d] \in SubfolderPages(d) } } :
            listing \in RootListings }

\* the names of the entries above
ListedNames ==
    {item.name : item \in FolderItems \cup RootItems}
        \cup {HeaderIn(item.name) : item \in RootItems}

(***************************************************************************)
(* find_library: the folder classifier.                                    *)
(***************************************************************************)
\* the local flags of find_library before the loop over the listing
InitialFlags ==
    [metadata_file_found |-> FALSE,
     keywords_dot_txt_found |-> FALSE,
     header_file_found |-> FALSE,
     sketch_file_found |-> FALSE,
     examples_folder_found |-> FALSE,
     only_administrative_files_found |-> TRUE]

\* re.fullmatch of the name against the patterns of the allow-list in turn,
\* with re.IGNORECASE
matches_administrative_file_whitelist(name) ==
    \E i \in 1..Len(administrative_file_whitelist) :
        fullmatch(administrative_file_whitelist[i], name, TRUE)

\* the verdicts of that loop on the listed names, worked out once
administrative_file_verdict ==
    [name \in ListedNames |-> matches_administrative_file_whitelist(name)]

\* the allow-list cut down to its first pattern
is_administrative_file_FirstPatternOnly(name) ==
    fullmatch(administrative_file_whitelist[1], name, TRUE)

is_administrative_file(name) ==
    IF name \in ListedNames
    THEN administrative_file_verdict[name]
    ELSE matches_administrative_file_whitelist(name)

\* examples folder names compared without re.IGNORECASE
is_examples_folder_CaseSensitive(name) ==
    \E i \in 1..Len(examples_folder_names) :
        fullmatch(examples_folder_names[i], name, FALSE)

is_examples_folder(name) ==
    \E i \in 1..Len(examples_folder_names) :
        fullmatch(examples_folder_names[i], name, TRUE)

has_header_extension(name) ==
    \E i \in 1..Len(header_file_extensions) :
        EndsWith(name, header_file_extensions[i])

\* sketch files recognised by the .ino extension alone
is_sketch_file_OnlyIno(name) == EndsWith(name, dot_ino)

is_sketch_file(name) == EndsWith(name, dot_ino) \/ EndsWith(name, dot_pde)

\* the name chain without the library.json branch
ScanNames_WithoutJson(flags, folder_item) ==
    IF folder_item.type = "file"
    THEN CASE folder_item.name = library_dot_properties ->
                [flags EXCEPT !.metadata_file_found = TRUE]
           [] folder_item.name = keywords_dot_txt ->
                [flags EXCEPT !.keywords_dot_txt_found = TRUE]
           [] OTHER ->
                IF has_header_extension(folder_item.name)
                THEN [flags EXCEPT !.header_file_found = TRUE]
                ELSE flags
    ELSE flags

\* the first if/elif chain of the loop body: metadata, keywords, header
ScanNames(flags, folder_item) ==
    IF folder_item.type = "file"
    THEN CASE folder_item.name = library_dot_properties ->
                [flags EXCEPT !.metadata_file_found = TRUE]
           [] folder_item.name = library_dot_json ->
                [flags EXCEPT !.metadata_file_found = TRUE]
           [] folder_item.name = keywords_dot_txt ->
                [flags EXCEPT !.keywords_dot_txt_found = TRUE]
           [] OTHER ->
                IF has_header_extension(folder_item.name)
                THEN [flags EXCEPT !.header_file_found = TRUE]
                ELSE flags
    ELSE flags

\* the verification checks with the allow-list verdict of the last file
\* standing for the whole listing
ScanVerify_LastFileDecides(flags, folder_item) ==
    CASE folder_item.type = "file" ->
            [flags EXCEPT
                !.sketch_file_found = @ \/ is_sketch_file(folder_item.name),
                !.only_administrative_files_found =
                    is_administrative_file(folder_item.name)]
      [] folder_item.type = "dir" ->
            [flags EXCEPT
                !.examples_folder_found = @ \/ is_examples_folder(folder_item.name)]
      [] OTHER -> flags

\* the checks of the loop body that only verification makes
ScanVerify(flags, folder_item) ==
    CASE folder_item.type = "file" ->
            [flags EXCEPT
                !.sketch_file_found = @ \/ is_sketch_file(folder_item.name),
                !.only_administrative_files_found =
                    @ /\ is_administrative_file(folder_item.name)]
      [] folder_item.type = "dir" ->
            [flags EXCEPT
                !.examples_folder_found = @ \/ is_examples_folder(folder_item.name)]
      [] OTHER -> flags

\* one iteration of the loop over folder_listing
ScanItem(flags, folder_item, verification) ==
    IF verification
    THEN ScanVerify(ScanNames(flags, folder_item), folder_item)
    ELSE ScanNames(flags, folder_item)

\* the whole loop, first item first
RECURSIVE ScanListing(_, _, _)
ScanListing(flags, listing, verification) ==
    IF listing = <<>> THEN flags
    ELSE ScanListing(ScanItem(flags, Head(listing), verification),
                     Tail(listing), verification)

\* the decision of verification taken in both modes
Decide_AlwaysVerifies(flags, verification) ==
    CASE flags.metadata_file_found -> "True"
      [] flags.header_file_found /\ ~flags.sketch_file_found -> "True"
      [] /\ flags.header_file_found
         /\ flags.sketch_file_found
         /\ (flags.examples_folder_found \/ flags.keywords_dot_txt_found) -> "True"
      [] flags.only_administrative_files_found -> "None"
      [] OTHER -> "False"

\* the decision after the loop; "True", "None" and "False" are the three
\* return values
Decide(flags, verification) ==
    IF verification
    THEN CASE flags.metadata_file_found -> "True"
           [] flags.header_file_found /\ ~flags.sketch_file_found -> "True"
           [] /\ flags.header_file_found
              /\ flags.sketch_file_found
              /\ (flags.examples_folder_found \/ flags.keywords_dot_txt_found) -> "True"
           [] flags.only_administrative_files_found -> "None"
           [] OTHER -> "False"
    ELSE CASE flags.metadata_file_found -> "True"
           [] flags.header_file_found -> "True"
           [] OTHER -> "False"

find_library(listing, verification) ==
    Decide(ScanListing(InitialFlags, listing, verification), verification)

(***************************************************************************)
(* The classifier applied to every bounded listing.                        *)
(***************************************************************************)
AccessIdle ==
    /\ stack = <<>>
    /\ ret = [kind |-> "none"]
    /\ last_api_requests_remaining_value = [search |-> 0, core |-> 0]
    /\ only503 = TRUE

InitLibrary ==
    /\ AccessIdle
    /\ ScannerIdle
    /\ TableIdle
    /\ folder_listing \in FolderListings
    /\ verify \in BOOLEAN
    /\ library_found = "pending"

FindLibrary ==
    /\ library_found = "pending"
    /\ library_found' = find_library(folder_listing, verify)
    /\ UNCHANGED <<folder_listing, verify>>
    /\ UNCHANGED accessVars
    /\ UNCHANGED scannerVars
    /\ UNCHANGED tableVars

\* a further call with the same arguments
FindLibraryAgain ==
    /\ library_found # "pending"
    /\ library_found' = find_library(folder_listing, verify)
    /\ UNCHANGED <<folder_listing, verify>>
    /\ UNCHANGED accessVars
    /\ UNCHANGED scannerVars
    /\ UNCHANGED tableVars

NextLibrary == FindLibrary \/ FindLibraryAgain

SpecLibrary == InitLibrary /\ [][NextLibrary]_vars

HasFile(listing, name) ==
    \E i \in 1..Len(listing) : listing[i] = File(name)

\* C9: a listing that holds a file named library.properties or library.json
\* is classified Found (True), whatever else it holds, in both modes.
C9_MetadataAlwaysFound ==
    (/\ library_found # "pending"
     /\ \/ HasFile(folder_listing, library_dot_properties)
        \/ HasFile(folder_listing, library_dot_json))
    => library_found = "True"

C9_Witness ==
    /\ library_found = "True"
    /\ verify
    /\ HasFile(folder_listing, library_dot_json)
    /\ \E i \in 1..Len(folder_listing) :
          is_sketch_file(folder_listing[i].name)

HasHeaderFile(listing) ==
    \E i \in 1..Len(listing) :
        /\ listing[i].type = "file"
        /\ \E j \in 1..Len(header_file_extensions) :
              EndsWith(listing[i].name, header_file_extensions[j])

HasMetadataFile(listing) ==
    \/ HasFile(listing, library_dot_properties)
    \/ HasFile(listing, library_dot_json)

\* C10: with verification off the outcome is Found exactly when the listing
\* holds a metadata file or a file with a header extension, NotFound
\* otherwise, and never Inconclusive.
C10_NoVerifyHeaderOrMetadata ==
    (library_found # "pending" /\ ~verify)
    => /\ library_found \in {"True", "False"}
       /\ library_found = "True"
            <=> (HasMetadataFile(folder_listing) \/ HasHeaderFile(folder_listing))

C10_Witness ==
    /\ library_found = "True"
    /\ ~verify
    /\ ~HasMetadataFile(folder_listing)
    /\ HasHeaderFile(folder_listing)
    /\ \E i \in 1..Len(folder_listing) :
          is_sketch_file(folder_listing[i].name)

(***************************************************************************)
(* What a listing holds, read off its entries one by one.                  *)
(***************************************************************************)
HasSketchFile(listing) ==
    \E i \in 1..Len(listing) :
        /\ listing[i].type = "file"
        /\ \/ EndsWith(listing[i].name, dot_ino)
           \/ EndsWith(listing[i].name, dot_pde)

HasExamplesDir(listing) ==
    \E i \in 1..Len(listing) :
        /\ listing[i].type = "dir"
        /\ \E j \in 1..Len(examples_folder_names) :
              fullmatch(examples_folder_names[j], listing[i].name, TRUE)

AllFilesAdministrative(listing) ==
    \A i \in 1..Len(listing) :
        listing[i].type = "file" => administrative_file_verdict[listing[i].name]

\* verification on, no metadata file, a header file and a sketch file, and
\* neither an examples directory nor a keywords.txt file
UncorroboratedHeaderAndSketch ==
    /\ library_found # "pending"
    /\ verify
    /\ ~HasMetadataFile(folder_listing)
    /\ HasHeaderFile(folder_listing)
    /\ HasSketchFile(folder_listing)
    /\ ~HasExamplesDir(folder_listing)
    /\ ~HasFile(folder_listing, keywords_dot_txt)

C12_NoHeaderAdministrativeDecides ==
    (/\ library_found # "pending"
     /\ verify
     /\ ~HasMetadataFile(folder_listing)
     /\ ~HasHeaderFile(folder_listing))
    => library_found = IF AllFilesAdministrative(folder_listing)
                       THEN "None" ELSE "False"

C12_Witness ==
    /\ library_found = "None"
    /\ verify
    /\ HasFile(folder_listing, <<"R", "E", "A", "D", "M", "E", ".", "m", "d">>)
    /\ HasFile(folder_listing, <<"L", "I", "C", "E", "N", "S", "E">>)
    /\ HasFile(folder_listing, keywords_dot_txt)

\* C13: with verification on and no metadata file, a listing that holds a
\* header file is classified Found (True) if and only if it holds no sketch
\* file, or holds an examples directory or a keywords.txt file.
C13_HeaderFoundIffNoSketchOrCorroborated ==
    (/\ library_found # "pending"
     /\ verify
     /\ ~HasMetadataFile(folder_listing)
     /\ HasHeaderFile(folder_listing))
    => (library_found = "True"
          <=> \/ ~HasSketchFile(folder_listing)
              \/ HasExamplesDir(folder_listing)
              \/ HasFile(folder_listing, keywords_dot_txt))

C13_Witness ==
    /\ library_found = "True"
    /\ verify
    /\ ~HasMetadataFile(folder_listing)
    /\ HasHeaderFile(folder_listing)
    /\ HasSketchFile(folder_listing)
    /\ \E i \in 1..Len(folder_listing) :
          folder_listing[i] = Dir(<<"E", "x", "a", "m", "p", "l", "e">>)

\* the listing with its entries at positions i and j exchanged
Exchanged(listing, i, j) ==
    [k \in 1..Len(listing) |->
        IF k = i THEN listing[j] ELSE IF k = j THEN listing[i] ELSE listing[k]]

\* exchanging two neighbouring entries of the listing leaves the outcome as
\* it is; every reordering is a chain of such exchanges
OrderInsensitive ==
    library_found # "pending"
    => \A i \in 1..(Len(folder_listing) - 1) :
          find_library(Exchanged(folder_listing, i, i + 1), verify) = library_found

\* a call leaves the cached budgets and the rest of the access layer's state
\* alone, and a repeated call on the same listing gives the same outcome
CallIsPure ==
    /\ UNCHANGED accessVars
    /\ UNCHANGED scannerVars
    /\ UNCHANGED tableVars
    /\ library_found # "pending" => library_found' = library_found

NoFolder == <<>>
root_folder == <<"/">>

\* <repository name>.h
repository_name_dot_h == <<"name", ".", "h">>

\* re.fullmatch of the name against the patterns of the deny-list in turn,
\* with re.IGNORECASE
matches_library_subfolder_blacklist(name) ==
    \E i \in 1..Len(library_subfolder_blacklist) :
        fullmatch(library_subfolder_blacklist[i], name, TRUE)

RootDirNames == {item.name : item \in {entry \in RootItems : entry.type = "dir"}}

\* the verdicts of that loop on the directory names, worked out once
blacklist_verdict ==
    [name \in RootDirNames |-> matches_library_subfolder_blacklist(name)]

\* the deny-list compared without re.IGNORECASE
folder_is_blacklisted_CaseSensitive(name) ==
    \E i \in 1..Len(library_subfolder_blacklist) :
        fullmatch(library_subfolder_blacklist[i], name, FALSE)

folder_is_blacklisted(name) ==
    IF name \in RootDirNames
    THEN blacklist_verdict[name]
    ELSE matches_library_subfolder_blacklist(name)

\* the exceptions a call of get_github_api_response ends in; URLError stands
\* for every exception the handlers of find_library_folder do not name
ContentsFailures == {"HTTPError", "JSONDecodeError", "TimeoutError", "URLError"}

\* the handlers around the root request with no handler for HTTPError
RootHandler_HTTPErrorEscapes(exception) ==
    IF exception \in {"JSONDecodeError", "TimeoutError"}
    THEN "return" ELSE "raise"

\* the handlers around the request for the root listing, lines 1034-1045
RootHandler(exception) ==
    IF exception \in {"HTTPError", "JSONDecodeError", "TimeoutError"}
    THEN "return" ELSE "raise"

\* the handler around the subfolder request with no handler for HTTPError
SubfolderHandler_HTTPErrorEscapes(exception) ==
    IF exception \in {"JSONDecodeError", "TimeoutError"}
    THEN "break" ELSE "raise"

\* the handler around the request for a subfolder listing, line 1086
SubfolderHandler(exception) ==
    IF exception \in {"JSONDecodeError", "HTTPError", "TimeoutError"}
    THEN "break" ELSE "raise"

\* an inconclusive root ends the scan under verification
AfterRoot_InconclusiveEnds(found, verification) ==
    IF found = "True" THEN "return_root"
    ELSE IF verification THEN "return_none"
    ELSE "scan"

\* a root that is not found is scanned under verification as well
AfterRoot_ScansAfterNotFound(found, verification) ==
    IF found = "True" THEN "return_root" ELSE "scan"

\* the subfolders are scanned whatever the root was classified as
AfterRoot_AlwaysScans(found, verification) == "scan"

\* lines 1052-1059: what follows the classification of the root
AfterRoot(found, verification) ==
    IF found = "True" THEN "return_root"
    ELSE IF verification /\ found = "False" THEN "return_none"
    ELSE "scan"

\* the pages the remote cuts a root listing into
RECURSIVE RootPages(_)
RootPages(listing) ==
    IF Len(listing) <= MaxPage THEN <<listing>>
    ELSE <<SubSeq(listing, 1, MaxPage)>>
            \o RootPages(SubSeq(listing, MaxPage + 1, Len(listing)))

Request(api, folder, name, page, outcome) ==
    [api |-> api, folder |-> folder, name |-> name, page |-> page,
     outcome |-> outcome]

\* the contents requests that ended in an exception
Failed ==
    { i \in 1..Len(requests) :
        requests[i].api = "contents" /\ requests[i].outcome # "ok" }

\* the call starting at the request for the root listing
StartScan_SkipsProbes ==
    [pc |-> "root_fetch",
     outcome |-> "running",
     exception |-> "none",
     library_folder |-> NoFolder,
     library_found |-> "pending",
     root_folder_listing |-> <<>>,
     position |-> 0,
     page_number |-> 1,
     additional_pages |-> TRUE,
     subfolder_listing |-> <<>>,
     platformio_filled |-> FALSE]

StartScan ==
    [pc |-> "probe_properties",
     outcome |-> "running",
     exception |-> "none",
     library_folder |-> NoFolder,
     library_found |-> "pending",
     root_folder_listing |-> <<>>,
     position |-> 0,
     page_number |-> 1,
     additional_pages |-> TRUE,
     subfolder_listing |-> <<>>,
     platformio_filled |-> FALSE]

Return(value) ==
    [scan EXCEPT !.pc = "done", !.outcome = "returned", !.library_folder = value]

Raise(exception) ==
    [scan EXCEPT !.pc = "done", !.outcome = "raised", !.exception = exception]

ScannerOnly ==
    /\ UNCHANGED accessVars
    /\ UNCHANGED <<folder_listing, verify, library_found, repository>>
    /\ UNCHANGED tableVars

InitFolder ==
    /\ AccessIdle
    /\ TableIdle
    /\ folder_listing = <<>>
    /\ library_found = "pending"
    /\ verify \in BOOLEAN
    /\ repository \in Repositories
    /\ scan = StartScan
    /\ requests = <<>>
    /\ classified = <<>>
    /\ non_library_folders_list = <<>>

\* lines 988-993
ProbeLibraryDotProperties ==
    /\ scan.pc = "probe_properties"
    /\ \E found \in BOOLEAN :
          /\ requests' = Append(requests,
                Request("raw", root_folder, library_dot_properties, 0,
                        IF found THEN "ok" ELSE "missing"))
          /\ scan' = [scan EXCEPT
                        !.pc = "probe_json",
                        !.library_folder = IF found THEN root_folder ELSE @]
    /\ UNCHANGED <<classified, non_library_folders_list>>
    /\ ScannerOnly

\* the file counts as there only when it was decoded
parse_library_dot_json_OnlyDecoded(answer) == answer = "ok"

\* lines 1285-1293 and the end of the function: what parse_library_dot_json
\* returns after that answer to its request
parse_library_dot_json(answer) == answer \in {"ok", "JSONDecodeError"}

\* lines 995-1006.  scan.platformio_filled: the library.json cells of the
\* row were written, lines 1295 and after, which only a decoded file reaches
ProbeLibraryDotJson ==
    /\ scan.pc = "probe_json"
    /\ \E answer \in {"ok", "JSONDecodeError", "HTTPError", "TimeoutError"} :
          LET found == parse_library_dot_json(answer)
              library_folder == IF found THEN root_folder ELSE scan.library_folder
          IN  /\ requests' = Append(requests,
                    Request("raw", root_folder, library_dot_json, 0,
                            CASE answer = "ok" -> "ok"
                              [] answer = "JSONDecodeError" -> "undecodable"
                              [] OTHER -> "missing"))
              /\ scan' = IF library_folder # NoFolder
                         THEN [Return(library_folder) EXCEPT
                                    !.platformio_filled = (answer = "ok")]
                         ELSE [scan EXCEPT !.pc = IF verify THEN "root_fetch"
                                                  ELSE "probe_header"]
    /\ UNCHANGED <<classified, non_library_folders_list>>
    /\ ScannerOnly

\* lines 1006-1022
ProbeHeader ==
    /\ scan.pc = "probe_header"
    /\ \E answer \in {"ok", "HTTPError", "RemoteDisconnected", "URLError"} :
          /\ requests' = Append(requests,
                Request("raw", root_folder, repository_name_dot_h, 0,
                        IF answer = "ok" THEN "ok" ELSE "missing"))
          /\ scan' = CASE answer = "ok" -> Return(root_folder)
                       [] answer \in {"HTTPError", "RemoteDisconnected"} ->
                            [scan EXCEPT !.pc = "root_fetch"]
                       [] OTHER -> Raise(answer)
    /\ UNCHANGED <<classified, non_library_folders_list>>
    /\ ScannerOnly

\* lines 1024-1049, one turn of the loop
RootFetch ==
    /\ scan.pc = "root_fetch"
    /\ LET pages == RootPages(repository.root)
           more == scan.page_number < Len(pages)
       IN  \/ /\ requests' = Append(requests,
                    Request("contents", root_folder, <<>>, scan.page_number, "ok"))
              /\ scan' = [scan EXCEPT
                            !.page_number = @ + 1,
                            !.additional_pages = more,
                            !.root_folder_listing = @ \o pages[scan.page_number],
                            !.pc = IF more THEN "root_fetch" ELSE "root_classify"]
           \/ /\ Cardinality(Failed) < MaxFailures
              /\ \E exception \in ContentsFailures :
                    /\ requests' = Append(requests,
                          Request("contents", root_folder, <<>>, scan.page_number,
                                  exception))
                    /\ scan' = IF RootHandler(exception) = "return"
                               THEN Return(NoFolder)
                               ELSE Raise(exception)
    /\ UNCHANGED <<classified, non_library_folders_list>>
    /\ ScannerOnly

\* lines 1051-1059
RootClassify ==
    /\ scan.pc = "root_classify"
    /\ LET found == find_library(scan.root_folder_listing, verify)
           step == AfterRoot(found, verify)
       IN  /\ classified' = Append(classified,
                    [folder |-> root_folder, library_found |-> found])
           /\ scan' = CASE step = "return_root" ->
                            [Return(root_folder) EXCEPT !.library_found = found]
                        [] step = "return_none" ->
                            [Return(NoFolder) EXCEPT !.library_found = found]
                        [] OTHER ->
                            [scan EXCEPT !.library_found = found,
                                         !.pc = "loop", !.position = 1]
    /\ UNCHANGED <<requests, non_library_folders_list>>
    /\ ScannerOnly

\* the loop variable taken for the first entry of the subfolder listing once
\* that listing is in
root_folder_item_FromSubfolder ==
    IF scan.pc = "sub_classify" /\ scan.subfolder_listing # <<>>
    THEN scan.subfolder_listing[1]
    ELSE scan.root_folder_listing[scan.position]

\* the entry of the root listing the for loop of line 1062 is at
root_folder_item == scan.root_folder_listing[scan.position]

InLoop ==
    /\ scan.pc = "loop"
    /\ scan.position <= Len(scan.root_folder_listing)

\* the loop passing over the entry after the one it is at
NextItem_SkipsOne == [scan EXCEPT !.position = @ + 2]

NextItem == [scan EXCEPT !.position = @ + 1]

\* line 1063: an entry that is not a directory
SkipFile ==
    /\ InLoop
    /\ root_folder_item.type # "dir"
    /\ scan' = NextItem
    /\ UNCHANGED <<requests, classified, non_library_folders_list>>
    /\ ScannerOnly

\* lines 1064-1073
SkipBlacklisted ==
    /\ InLoop
    /\ root_folder_item.type = "dir"
    /\ folder_is_blacklisted(root_folder_item.name)
    /\ scan' = NextItem
    /\ UNCHANGED <<requests, classified, non_library_folders_list>>
    /\ ScannerOnly

\* lines 1075-1098, one turn of the loop
SubfolderFetch ==
    /\ \/ /\ InLoop
          /\ root_folder_item.type = "dir"
          /\ ~folder_is_blacklisted(root_folder_item.name)
       \/ scan.pc = "sub_fetch"
    /\ LET first == scan.pc = "loop"
           page_number == IF first THEN 1 ELSE scan.page_number
           subfolder_listing == IF first THEN <<>> ELSE scan.subfolder_listing
           pages == repository.contents[root_folder_item.name]
           more == page_number < Len(pages)
       IN  \/ /\ requests' = Append(requests,
                    Request("contents", root_folder_item.name, <<>>,
                            page_number, "ok"))
              /\ scan' = [scan EXCEPT
                            !.page_number = page_number + 1,
                            !.additional_pages = more,
                            !.subfolder_listing =
                                subfolder_listing \o pages[page_number],
                            !.pc = IF more THEN "sub_fetch" ELSE "sub_classify"]
           \/ /\ Cardinality(Failed) < MaxFailures
              /\ \E exception \in ContentsFailures :
                    /\ requests' = Append(requests,
                          Request("contents", root_folder_item.name, <<>>,
                                  page_number, exception))
                    /\ scan' = IF SubfolderHandler(exception) = "break"
                               THEN [scan EXCEPT
                                        !.page_number = page_number,
                                        !.subfolder_listing = subfolder_listing,
                                        !.pc = "sub_classify"]
                               ELSE Raise(exception)
    /\ UNCHANGED <<classified, non_library_folders_list>>
    /\ ScannerOnly

\* nothing is written to the list
WriteNonLibraryFolder_Dropped(list, name) == list

\* lines 1112-1117: the folder name goes to the file as one more line
WriteNonLibraryFolder(list, name) == Append(list, name)

\* lines 1100-1117
SubfolderClassify ==
    /\ scan.pc = "sub_classify"
    /\ LET found == find_library(scan.subfolder_listing, verify)
           name == root_folder_item.name
       IN  /\ classified' = Append(classified,
                    [folder |-> name, library_found |-> found])
           /\ IF found = "True"
              THEN /\ requests' = requests \o
                        << Request("raw", name, library_dot_properties, 0, "missing"),
                           Request("raw", name, library_dot_json, 0, "missing") >>
                   /\ scan' = Return(name)
                   /\ UNCHANGED non_library_folders_list
              ELSE /\ non_library_folders_list' =
                        WriteNonLibraryFolder(non_library_folders_list, name)
                   /\ scan' = [NextItem EXCEPT !.pc = "loop"]
                   /\ UNCHANGED requests
    /\ ScannerOnly

\* lines 1119-1120
ScanEnd ==
    /\ scan.pc = "loop"
    /\ scan.position > Len(scan.root_folder_listing)
    /\ scan' = Return(NoFolder)
    /\ UNCHANGED <<requests, classified, non_library_folders_list>>
    /\ ScannerOnly

NextFolder ==
    \/ ProbeLibraryDotProperties
    \/ ProbeLibraryDotJson
    \/ ProbeHeader
    \/ RootFetch
    \/ RootClassify
    \/ SkipFile
    \/ SkipBlacklisted
    \/ SubfolderFetch
    \/ SubfolderClassify
    \/ ScanEnd

SpecFolder == InitFolder /\ [][NextFolder]_vars

(***************************************************************************)
(* Properties of the scanner.                                              *)
(***************************************************************************)
\* the name fully matches a pattern of the deny-list, letter case aside
DenyListed(name) == blacklist_verdict[name]

\* the requests made for a subfolder of the root
SubfolderRequests ==
    { i \in 1..Len(requests) : requests[i].folder # root_folder }

\* the subfolders find_library was applied to
SubfoldersClassified ==
    { i \in 1..Len(classified) : classified[i].folder # root_folder }

Returned == scan.pc = "done" /\ scan.outcome = "returned"

\* the root listing was classified with that outcome
RootClassifiedAs(outcome) ==
    /\ classified # <<>>
    /\ classified[1] = [folder |-> root_folder, library_found |-> outcome]

ProbesFoundNothing ==
    /\ Len(requests) >= 3
    /\ \A i \in 1..3 : requests[i].api = "raw" /\ requests[i].outcome = "missing"

\* C16 as stated: with verification off, a root listing that is the single
\* directory firmware, whose listing is the header SparkJson.h, gives the
\* library path firmware.
C16_FirmwareIsReturned ==
    (/\ Returned
     /\ ~verify
     /\ ProbesFoundNothing
     /\ Failed = {}
     /\ repository.root = <<Dir(<<"f", "i", "r", "m", "w", "a", "r", "e">>)>>
     /\ repository.contents[<<"f", "i", "r", "m", "w", "a", "r", "e">>] =
            << <<File(<<"S", "p", "a", "r", "k", "J", "s", "o", "n", ".", "h">>)>> >>)
    => scan.library_folder = <<"f", "i", "r", "m", "w", "a", "r", "e">>

\* the root directories at positions before k, by name
RootDirsBefore(k) ==
    { repository.root[j].name :
        j \in { m \in 1..(k - 1) : repository.root[m].type = "dir" } }

\* C17: with verification on, after an Inconclusive root the subdirectories
\* that are not deny-listed are fetched in turn, and the first one classified
\* Found is the returned path; with none Found the result is None.
C17_InconclusiveRootScansSubfolders ==
    (verify /\ RootClassifiedAs("None") /\ Returned)
    => LET found == { i \in SubfoldersClassified :
                        classified[i].library_found = "True" }
       IN  /\ found # {} =>
                \E i \in found : scan.library_folder = classified[i].folder
           /\ found = {} => scan.library_folder = NoFolder
           /\ \A k \in 1..Len(repository.root) :
                (/\ repository.root[k].type = "dir"
                 /\ ~DenyListed(repository.root[k].name)
                 /\ scan.library_folder \notin RootDirsBefore(k))
                => /\ \E i \in SubfolderRequests :
                         /\ requests[i].api = "contents"
                         /\ requests[i].folder = repository.root[k].name
                   /\ \E i \in SubfoldersClassified :
                         classified[i].folder = repository.root[k].name

C17_Witness ==
    /\ verify
    /\ Returned
    /\ repository.root = <<File(<<"R", "E", "A", "D", "M", "E", ".", "m", "d">>),
                           File(<<"L", "I", "C", "E", "N", "S", "E">>),
                           Dir(<<"T", "a", "l", "k", "i", "e">>)>>
    /\ classified =
          << [folder |-> root_folder, library_found |-> "None"],
             [folder |-> <<"T", "a", "l", "k", "i", "e">>, library_found |-> "True"] >>
    /\ scan.subfolder_listing = <<File(<<"T", "a", "l", "k", "i", "e", ".", "h">>)>>
    /\ scan.library_folder = <<"T", "a", "l", "k", "i", "e">>

\* C18: with verification on, a root classified NotFound ends the call with
\* None, and no subdirectory is fetched or classified, whatever it holds.
C18_NotFoundRootEndsScan ==
    (verify /\ RootClassifiedAs("False"))
    => /\ Returned
       /\ scan.library_folder = NoFolder
       /\ SubfolderRequests = {}
       /\ SubfoldersClassified = {}

C18_Witness ==
    /\ verify
    /\ Returned
    /\ RootClassifiedAs("False")
    /\ repository.root = <<File(<<"m", "a", "i", "n", ".", "c", "p", "p">>),
                           Dir(<<"T", "a", "l", "k", "i", "e">>)>>
    /\ repository.contents[<<"T", "a", "l", "k", "i", "e">>] =
          << <<File(<<"T", "a", "l", "k", "i", "e", ".", "h">>)>> >>

\* C19 as stated: with verification on, after a root classified NotFound the
\* root subdirectories that are not deny-listed are fetched and classified.
C19_NotFoundRootIsScanned ==
    (verify /\ RootClassifiedAs("False") /\ Returned)
    => \A k \in 1..Len(repository.root) :
          (repository.root[k].type = "dir" /\ ~DenyListed(repository.root[k].name))
          => \E i \in SubfolderRequests :
                requests[i].folder = repository.root[k].name

\* C19 amended: the root subdirectories are enumerated, fetched or classified
\* only after a root classified Inconclusive when verification is on, and
\* only after a root classified NotFound when verification is off.
C19_ScanOnlyAfterInconclusiveRoot ==
    (\/ scan.pc \in {"loop", "sub_fetch", "sub_classify"}
     \/ SubfolderRequests # {}
     \/ SubfoldersClassified # {})
    => RootClassifiedAs(IF verify THEN "None" ELSE "False")

C19_Witness ==
    /\ verify
    /\ RootClassifiedAs("None")
    /\ scan.pc = "loop"
    /\ scan.position = 3
    /\ scan.root_folder_listing[1].type = "dir"
    /\ DenyListed(scan.root_folder_listing[1].name)
    /\ non_library_folders_list = <<scan.root_folder_listing[2].name>>

\* C20: when the request for the root listing ends in an HTTP error the call
\* returns None, in both modes, and no subdirectory is requested or
\* classified.
C20_RootHttpErrorReturnsNone ==
    \A i \in 1..Len(requests) :
        (/\ requests[i].api = "contents"
         /\ requests[i].folder = root_folder
         /\ requests[i].outcome = "HTTPError")
        => /\ i = Len(requests)
           /\ Returned
           /\ scan.library_folder = NoFolder
           /\ SubfolderRequests = {}
           /\ classified = <<>>

C20_Witness ==
    /\ ~verify
    /\ Returned
    /\ scan.library_folder = NoFolder
    /\ Len(requests) = 4
    /\ requests[4] = Request("contents", root_folder, <<>>, 1, "HTTPError")
    /\ repository.root = <<Dir(<<"T", "a", "l", "k", "i", "e">>)>>
    /\ repository.contents[<<"T", "a", "l", "k", "i", "e">>] =
          << <<File(<<"T", "a", "l", "k", "i", "e", ".", "h">>)>> >>

\* the requests for a contents listing
ContentsRequests ==
    { i \in 1..Len(requests) : requests[i].api = "contents" }

\* the entries of all pages of a subfolder, in order
RECURSIVE Flatten(_)
Flatten(pages) ==
    IF pages = <<>> THEN <<>> ELSE Head(pages) \o Flatten(Tail(pages))

\* the directories that lie inside a subfolder of the root
NestedDirNames ==
    UNION { DirNames(Flatten(repository.contents[d])) :
                d \in DOMAIN repository.contents }

\* C21: every contents request is for the root or for a directory listed in
\* the root, never for a directory that lies inside a subfolder, and the
\* returned path is None, "/" or the name of a directory listed in the root.
C21_OneLevelOnly ==
    /\ \A i \in ContentsRequests :
          /\ requests[i].folder \in {root_folder} \cup DirNames(repository.root)
          /\ requests[i].folder \notin NestedDirNames
    /\ \A i \in SubfoldersClassified :
          classified[i].folder \in DirNames(repository.root)
    /\ Returned =>
          scan.library_folder \in
              {NoFolder, root_folder} \cup DirNames(repository.root)

C21_Witness ==
    /\ Returned
    /\ ~verify
    /\ scan.library_folder = NoFolder
    /\ repository.root = <<Dir(<<"T", "a", "l", "k", "i", "e">>)>>
    /\ NestedDirNames = {<<"e", "x", "a", "m", "p", "l", "e", "s">>}
    /\ Failed = {}
    /\ Cardinality(ContentsRequests) = 2
    /\ non_library_folders_list = << <<"T", "a", "l", "k", "i", "e">> >>

\* the positions of the root listing that hold a directory off the deny-list
Scannable ==
    { k \in 1..Len(repository.root) :
        /\ repository.root[k].type = "dir"
        /\ ~DenyListed(repository.root[k].name) }

\* the subfolder scan has run to its end and the call has returned
ScanReturned ==
    /\ Returned
    /\ RootClassifiedAs(IF verify THEN "None" ELSE "False")

\* C22: when the subfolder scan runs, the returned path is the first
\* directory off the deny-list, in the order of the root listing, that is
\* classified Found; no directory after it is fetched or classified; with no
\* scanned directory Found the result is None.
C22_FirstFoundWins ==
    ScanReturned
    => LET winners == { k \in Scannable :
                          \E i \in SubfoldersClassified :
                              /\ classified[i].folder = repository.root[k].name
                              /\ classified[i].library_found = "True" }
       IN  /\ winners = {} => scan.library_folder = NoFolder
           /\ \A k \in winners :
                /\ scan.library_folder = repository.root[k].name
                /\ \A j \in 1..Len(repository.root) :
                      j > k =>
                        /\ \A i \in SubfolderRequests :
                              requests[i].folder # repository.root[j].name
                        /\ \A i \in SubfoldersClassified :
                              classified[i].folder # repository.root[j].name
                /\ \A j \in Scannable :
                      j < k =>
                        \E i \in SubfoldersClassified :
                            /\ classified[i].folder = repository.root[j].name
                            /\ classified[i].library_found # "True"
           /\ Failed = {} =>
                \A k \in Scannable :
                    (/\ find_library(Flatten(repository.contents[repository.root[k].name]),
                                     verify) = "True"
                     /\ \A j \in Scannable :
                            j < k =>
                              find_library(
                                  Flatten(repository.contents[repository.root[j].name]),
                                  verify) # "True")
                    => scan.library_folder = repository.root[k].name

C22_Witness ==
    /\ ScanReturned
    /\ ~verify
    /\ Failed = {}
    /\ repository.root = <<Dir(<<"a", "n", "d", "r", "o", "i", "d">>),
                           Dir(<<"T", "a", "l", "k", "i", "e">>),
                           File(<<"L", "I", "C", "E", "N", "S", "E">>)>>
    /\ scan.library_folder = <<"T", "a", "l", "k", "i", "e">>
    /\ non_library_folders_list = << <<"a", "n", "d", "r", "o", "i", "d">> >>

\* the names of the subfolders classified other than Found, in order
RECURSIVE NotFoundFolders(_)
NotFoundFolders(log) ==
    IF log = <<>> THEN <<>>
    ELSE (IF Head(log).folder # root_folder /\ Head(log).library_found # "True"
          THEN <<Head(log).folder>> ELSE <<>>) \o NotFoundFolders(Tail(log))

\* C23: a scanned subdirectory classified NotFound has its name appended to
\* the non-library-folder list at the moment it is classified (an
\* Inconclusive one as well), one classified Found is never written there,
\* and the requests for one subdirectory are the pages 1, 2, ... in a row,
\* none of them asked twice nor after the classification.
C23_NotFoundFoldersLogged ==
    /\ non_library_folders_list = NotFoundFolders(classified)
    /\ \A i, j \in SubfolderRequests \cap ContentsRequests :
          (i < j /\ requests[i].folder = requests[j].folder)
          => /\ requests[j].page > requests[i].page
             /\ \A k \in i..j : requests[k].folder = requests[i].folder
    /\ \A i \in SubfoldersClassified :
          /\ scan.pc \in {"sub_fetch", "sub_classify"}
                => root_folder_item.name # classified[i].folder
          /\ \A j \in SubfoldersClassified :
                i # j => classified[i].folder # classified[j].folder
          /\ classified[i].library_found = "True"
                => \A n \in 1..Len(non_library_folders_list) :
                      non_library_folders_list[n] # classified[i].folder

C23_Witness ==
    /\ verify
    /\ scan.pc = "sub_fetch"
    /\ Len(classified) = 2
    /\ classified[2].library_found = "False"
    /\ non_library_folders_list = <<classified[2].folder>>
    /\ scan.position = 2
    /\ requests[Len(requests)].folder = scan.root_folder_listing[2].name

\* the requests for single files of the root
RootProbes ==
    { i \in 1..Len(requests) :
        requests[i].api = "raw" /\ requests[i].folder = root_folder }

\* C24: the probes of the root come before any contents request:
\* library.properties, then library.json, in both modes, then <name>.h with
\* verification off; a probe that finds its file makes the result "/" with
\* no contents request; with verification on <name>.h is never asked for.
C24_ProbesComeFirst ==
    /\ Len(requests) >= 1 =>
          requests[1] \in { Request("raw", root_folder, library_dot_properties,
                                    0, outcome) : outcome \in {"ok", "missing"} }
    /\ Len(requests) >= 2 =>
          requests[2] \in { Request("raw", root_folder, library_dot_json,
                                    0, outcome) :
                                outcome \in {"ok", "undecodable", "missing"} }
    /\ \A i \in RootProbes :
          requests[i].name = repository_name_dot_h => (i = 3 /\ ~verify)
    /\ (/\ ~verify
        /\ Len(requests) >= 3
        /\ requests[1].outcome = "missing"
        /\ requests[2].outcome = "missing")
          => requests[3].name = repository_name_dot_h
    /\ \A i \in ContentsRequests : i > (IF verify THEN 2 ELSE 3)
    /\ \A i \in RootProbes :
          requests[i].outcome = "ok"
          => /\ ContentsRequests = {}
             /\ scan.pc = "done" =>
                   (Returned /\ scan.library_folder = root_folder)
             /\ i = 3 => scan.pc = "done"
             /\ Len(requests) >= 2 => scan.pc = "done"

C24_Witness ==
    /\ ~verify
    /\ Returned
    /\ scan.library_folder = root_folder
    /\ Len(requests) = 3
    /\ requests[3] = Request("raw", root_folder, repository_name_dot_h, 0, "ok")
    /\ repository.root # <<>>

(***************************************************************************)
(* populate_table: the walk over the Library Manager index and the three   *)
(* searches, with populate_row applied to every candidate.                 *)
(***************************************************************************)

\* lines 64-66
maximum_search_retries == 10

\* lines 69-78; the alternation librar((y)|(ies)) of the seventh pattern is
\* written as the two patterns it stands for, and the ninth and tenth have
\* no anchors, which adds nothing to a full match
repository_name_blacklist ==
    << <<"a", "r", "d", "u", "i", "n", "o">>,
       <<"a", "r", "d", "u", "i", "n", "o", "ANYSTAR", "l", "i", "b", "s">>,
       <<"a", "r", "d", "u", "i", "n", "o", "ANYSTAR", "p", "r", "o", "j", "e", "c", "t", "ANY">>,
       <<"a", "r", "d", "u", "i", "n", "o", "ANYSTAR", "l", "i", "b", "r", "a", "r", "i", "e", "s">>,
       <<"a", "r", "d", "u", "i", "n", "o", "ANYSTAR", "p", "r", "o", "j", "e", "c", "t", "ANY">>,
       <<"l", "i", "b", "r", "a", "r", "i", "e", "s">>,
       <<"m", "y", "ANYSTAR", "a", "r", "d", "u", "i", "n", "o", "ANYSTAR", "l", "i", "b", "r", "a", "r", "y", "ANYSTAR">>,
       <<"m", "y", "ANYSTAR", "a", "r", "d", "u", "i", "n", "o", "ANYSTAR", "l", "i", "b", "r", "a", "r", "i", "e", "s", "ANYSTAR">>,
       <<"ANYSTAR", "s", "k", "e", "t", "c", "h", "e", "s", "ANYSTAR">>,
       <<"ANYSTAR", "s", "k", "e", "t", "c", "h", "b", "o", "o", "k", "ANYSTAR">> >>

\* lines 227-236
topic_blacklist ==
    {"arduino-sketch", "mongoose-os", "particle", "particle-core",
     "particle-devices", "particle-electron", "particle-io", "particle-photon"}

\* lines 408-450: the arguments of the three calls of search_repositories.
\* A created argument "<=D" or ">=D" is written with that date in both
\* fields, "A..B" with from A and to B; a date is <<year, month, day>>.
searches ==
    <<
       [search_query |-> "topic:arduino-library",
        created_argument_list |->
            << [op |-> "<=", from |-> <<2018, 5, 29>>, to |-> <<2018, 5, 29>>],
               [op |-> ">=", from |-> <<2018, 5, 30>>, to |-> <<2018, 5, 30>>] >>,
        fork_argument |-> "true",
        verify |-> FALSE,
        log_verification_failures |-> FALSE],
       [search_query |-> "topic:arduino",
        created_argument_list |->
            << [op |-> "<=", from |-> <<2016, 3, 23>>, to |-> <<2016, 3, 23>>],
               [op |-> "..", from |-> <<2016, 3, 24>>, to |-> <<2017, 1, 7>>],
               [op |-> "..", from |-> <<2017, 1, 8>>, to |-> <<2017, 3, 22>>],
               [op |-> "..", from |-> <<2017, 3, 23>>, to |-> <<2017, 6, 15>>],
               [op |-> "..", from |-> <<2017, 6, 16>>, to |-> <<2017, 9, 18>>],
               [op |-> "..", from |-> <<2017, 9, 19>>, to |-> <<2017, 12, 19>>],
               [op |-> "..", from |-> <<2017, 12, 20>>, to |-> <<2018, 3, 7>>],
               [op |-> "..", from |-> <<2018, 3, 8>>, to |-> <<2018, 6, 5>>],
               [op |-> ">=", from |-> <<2018, 6, 6>>, to |-> <<2018, 6, 6>>] >>,
        fork_argument |-> "true",
        verify |-> TRUE,
        log_verification_failures |-> FALSE],
       [search_query |-> "arduino+library+NOT+mongoose+NOT+particle+topics:0+language:cpp+language:c+language:arduino",
        created_argument_list |->
            << [op |-> "<=", from |-> <<2012, 12, 25>>, to |-> <<2012, 12, 25>>],
               [op |-> "..", from |-> <<2012, 12, 26>>, to |-> <<2013, 12, 27>>],
               [op |-> "..", from |-> <<2013, 12, 28>>, to |-> <<2014, 10, 5>>],
               [op |-> "..", from |-> <<2014, 10, 6>>, to |-> <<2015, 4, 28>>],
               [op |-> "..", from |-> <<2015, 4, 29>>, to |-> <<2015, 11, 25>>],
               [op |-> "..", from |-> <<2015, 11, 26>>, to |-> <<2016, 5, 18>>],
               [op |-> "..", from |-> <<2016, 5, 19>>, to |-> <<2016, 11, 20>>],
               [op |-> "..", from |-> <<2016, 11, 21>>, to |-> <<2017, 4, 14>>],
               [op |-> "..", from |-> <<2017, 4, 15>>, to |-> <<2017, 9, 18>>],
               [op |-> "..", from |-> <<2017, 9, 19>>, to |-> <<2018, 1, 31>>],
               [op |-> "..", from |-> <<2018, 2, 1>>, to |-> <<2018, 6, 12>>],
               [op |-> ">=", from |-> <<2018, 6, 13>>, to |-> <<2018, 6, 13>>] >>,
        fork_argument |-> "false",
        verify |-> TRUE,
        log_verification_failures |-> TRUE] >>

\* lines 457-498: the heading row (its cells end in zero-width spaces, which
\* are left out here)
heading_row ==
    [repository_url |-> "Repository URL",
     repository_name |-> <<"R", "e", "p", "o", " ", "N", "a", "m", "e">>,
     library_path |-> <<"L", "i", "b", "r", "a", "r", "y", " ", "P", "a", "t", "h">>,
     in_library_manager_index |-> "In Library Manager"]

(***************************************************************************)
(* The calendar, and the created qualifier of the search as the remote     *)
(* applies it to the day a repository was created on.                      *)
(***************************************************************************)
MaxYears == 7

IsLeapYear(year) ==
    (year % 4 = 0 /\ year % 100 # 0) \/ year % 400 = 0

DaysInMonth(year, month) ==
    IF month = 2 THEN (IF IsLeapYear(year) THEN 29 ELSE 28)
    ELSE IF month \in {4, 6, 9, 11} THEN 30 ELSE 31

\* the days of the years the model looks at
Days ==
    { date \in (2012..(2011 + MaxYears)) \X (1..12) \X (1..31) :
        date[3] <= DaysInMonth(date[1], date[2]) }

\* a is a day before b, or the same day
NotAfter(a, b) ==
    \/ a[1] < b[1]
    \/ a[1] = b[1] /\ a[2] < b[2]
    \/ a[1] = b[1] /\ a[2] = b[2] /\ a[3] <= b[3]

NextDay(date) ==
    IF date[3] < DaysInMonth(date[1], date[2])
    THEN <<date[1], date[2], date[3] + 1>>
    ELSE IF date[2] < 12 THEN <<date[1], date[2] + 1, 1>>
    ELSE <<date[1] + 1, 1, 1>>

\* a range that leaves out its last day
InWindow_EndExcluded(created_argument, date) ==
    CASE created_argument.op = "<=" -> NotAfter(date, created_argument.to)
      [] created_argument.op = ">=" -> NotAfter(created_argument.from, date)
      [] created_argument.op = ".." ->
            /\ NotAfter(created_argument.from, date)
            /\ NotAfter(date, created_argument.to)
            /\ date # created_argument.to

\* created:<=D, created:>=D and created:A..B, both ends included
InWindow(created_argument, date) ==
    CASE created_argument.op = "<=" -> NotAfter(date, created_argument.to)
      [] created_argument.op = ">=" -> NotAfter(created_argument.from, date)
      [] created_argument.op = ".." ->
            /\ NotAfter(created_argument.from, date)
            /\ NotAfter(date, created_argument.to)

(***************************************************************************)
(* The remote: the repositories it knows, the Library Manager index and    *)
(* the answers of the search API.                                          *)
(***************************************************************************)
MaxIndex == 2
MaxPerPage == 1
\* the results the remote serves for one search at most (1000 at GitHub,
\* lines 806-807)
MaxResults == 2

\* the repository objects of the remote, in the order sort=forks&order=desc
\* gives them
RepositoryObjects ==
    << [html_url |-> "https://github.com/o/Talkie",
        owner |-> "o",
        name |-> <<"T", "a", "l", "k", "i", "e">>,
        topics |-> {"arduino"},
        created_at |-> <<2018, 5, 29>>,
        contents |->
            [root |-> <<File(<<"R", "E", "A", "D", "M", "E", ".", "m", "d">>),
                        Dir(<<"D", "o", "c", "s">>),
                        Dir(<<"T", "a", "l", "k", "i", "e">>)>>,
             contents |-> (<<"T", "a", "l", "k", "i", "e">> :>
                              << <<File(<<"T", "a", "l", "k", "i", "e", ".", "h">>)>> >>)]],
       [html_url |-> "https://github.com/o/main",
        owner |-> "o",
        name |-> <<"m", "a", "i", "n">>,
        topics |-> {},
        created_at |-> <<2016, 2, 29>>,
        contents |->
            [root |-> <<File(<<"m", "a", "i", "n", ".", "c", "p", "p">>)>>,
             contents |-> <<>>]],
       [html_url |-> "https://github.com/o/Arduino",
        owner |-> "o",
        name |-> <<"A", "r", "d", "u", "i", "n", "o">>,
        topics |-> {"arduino", "arduino-library"},
        created_at |-> <<2018, 6, 5>>,
        contents |->
            [root |-> <<File(<<"l", "i", "b", ".", "h">>)>>,
             contents |-> <<>>]],
       [html_url |-> "https://github.com/o/dac",
        owner |-> "o",
        name |-> <<"d", "a", "c">>,
        topics |-> {"arduino", "arduino-library", "arduino-sketch"},
        created_at |-> <<2017, 1, 8>>,
        contents |->
            [root |-> <<File(<<"l", "i", "b", ".", "h">>)>>,
             contents |-> <<>>]],
       [html_url |-> "https://github.com/o/hardware",
        owner |-> "o",
        name |-> <<"h", "a", "r", "d", "w", "a", "r", "e">>,
        topics |-> {"arduino"},
        created_at |-> <<2018, 4, 1>>,
        contents |->
            [root |-> <<File(<<"l", "i", "b", ".", "h">>)>>,
             contents |-> <<>>]] >>

\* the repository entries the index may hold, as str.split('/') cuts them
IndexUrls ==
    { <<"https:", "", "github.com", "o", <<"T", "a", "l", "k", "i", "e", ".", "g", "i", "t">>>>,
      <<"https:", "", "github.com", "o", <<"m", "a", "i", "n", ".", "g", "i", "t">>>>,
      <<"http:", "", "example.org", "o", <<"x", ".", "g", "i", "t">>>> }

LibraryIndexes ==
    UNION { [1..n -> IndexUrls] : n \in 0..MaxIndex }

\* the repository object the repos API gives for owner/name
RepositoryNamed(owner, name) ==
    CHOOSE i \in 1..Len(RepositoryObjects) :
        /\ RepositoryObjects[i].owner = owner
        /\ RepositoryObjects[i].name = name

\* whether the search of that number finds the repository
FoundBy(query, repository_object) ==
    CASE query = 1 -> "arduino-library" \in repository_object.topics
      [] query = 2 -> "arduino" \in repository_object.topics
      [] query = 3 -> repository_object.topics = {}

\* all results of one search in one window, and the pages they come on
SearchResults(query, window) ==
    SelectSeq(RepositoryObjects,
              LAMBDA r : /\ FoundBy(query, r)
                         /\ InWindow(searches[query].created_argument_list[window],
                                     r.created_at))

\* what the remote may answer to the request for a page: the page, or the
\* page flagged incomplete.  total_count is the number of all results, the
\* pages hold the first MaxResults of them.
SearchResponses(query, window, page_number) ==
    LET results == SearchResults(query, window)
        served == IF Len(results) < MaxResults THEN Len(results) ELSE MaxResults
        first == (page_number - 1) * MaxPerPage + 1
        last == IF page_number * MaxPerPage < served
                THEN page_number * MaxPerPage ELSE served
        answer == [incomplete_results |-> FALSE,
                   total_count |-> Len(results),
                   items |-> SubSeq(results, first, last),
                   additional_pages |-> page_number * MaxPerPage < served]
    IN  { answer, [answer EXCEPT !.incomplete_results = TRUE] }

(***************************************************************************)
(* populate_table as a machine.  run.pc is the place populate_table and    *)
(* the function it is in have reached, row.pc the place of populate_row.   *)
(* run.started, run.accepted and run.handed record the windows entered,    *)
(* the pages accepted in the window and the items of the window handed to  *)
(* populate_row; requests and classified are those of the candidate in     *)
(* hand.                                                                   *)
(***************************************************************************)

\* line 877 and the columns the model keeps
blank_row ==
    [repository_url |-> "", repository_name |-> <<>>,
     library_path |-> <<>>, in_library_manager_index |-> ""]

\* lines 757-760 and 766-770: the locals at the start of a window
StartWindow(query, window) ==
    [run EXCEPT !.pc = "request",
                !.query = query,
                !.window = window,
                !.search_results_count = 0,
                !.page_number = 1,
                !.additional_pages = TRUE,
                !.json_data = <<>>,
                !.incomplete_results = TRUE,
                !.search_retry_count = 0,
                !.item = 0,
                !.started = Append(@, <<query, window>>),
                !.accepted = <<>>,
                !.handed = <<>>]

\* populate_table at line 404, after initialize_table
InitialRun(libraries) ==
    [pc |-> "index",
     libraries |-> libraries,
     position |-> 1,
     last_repository_url |-> <<>>,
     query |-> 0,
     window |-> 0,
     search_results_count |-> 0,
     page_number |-> 1,
     additional_pages |-> TRUE,
     json_data |-> <<>>,
     incomplete_results |-> TRUE,
     search_retry_count |-> 0,
     item |-> 0,
     started |-> <<>>,
     accepted |-> <<>>,
     handed |-> <<>>,
     warnings |-> <<>>]

\* an exception leaves populate_table
Aborted(exception) == [pc |-> "aborted", exception |-> exception]

InitTable ==
    /\ AccessIdle
    /\ folder_listing = <<>>
    /\ library_found = "pending"
    /\ verify = FALSE
    /\ ScannerIdle
    /\ table = <<heading_row>>
    /\ verification_failed_list = <<>>
    /\ run \in { InitialRun(libraries) : libraries \in LibraryIndexes }
    /\ row = [pc |-> "idle"]
    /\ output_file = [exists |-> FALSE, rows |-> <<>>]

\* what no step of populate_table touches
TableOnly ==
    /\ UNCHANGED accessVars
    /\ UNCHANGED <<folder_listing, library_found, output_file>>

\* populate_row is not running
Resting == row.pc \in {"idle", "returned"}

\* the caller goes on without a candidate in hand
NoCandidate ==
    /\ row' = [pc |-> "idle"]
    /\ scan' = [pc |-> "idle"]
    /\ repository' = [root |-> <<>>, contents |-> <<>>]
    /\ verify' = FALSE
    /\ requests' = <<>>
    /\ classified' = <<>>
    /\ UNCHANGED <<table, verification_failed_list, non_library_folders_list>>

\* the call of populate_row, lines 821-835
populate_row(repository_object, in_library_manager, verify_argument, log_verification_failures) ==
    /\ row' = [pc |-> "called",
               repository_object |-> repository_object,
               in_library_manager |-> in_library_manager,
               verify |-> verify_argument,
               log_verification_failures |-> log_verification_failures,
               row_list |-> blank_row,
               outcome |-> "running"]
    /\ scan' = [pc |-> "idle"]
    /\ repository' = [root |-> <<>>, contents |-> <<>>]
    /\ verify' = FALSE
    /\ classified' = <<>>
    /\ UNCHANGED <<table, verification_failed_list, non_library_folders_list>>

\* lines 726-740: one entry of the index
ProcessLibraryManagerIndex ==
    /\ run.pc = "index"
    /\ Resting
    /\ run.position <= Len(run.libraries)
    /\ LET repository_url == run.libraries[run.position]
           name == SubSeq(repository_url[5], 1, Len(repository_url[5]) - 4)
       IN  IF repository_url = run.last_repository_url
           THEN /\ run' = [run EXCEPT !.position = @ + 1]
                /\ NoCandidate
           ELSE IF repository_url[3] # "github.com"
           THEN /\ run' = [run EXCEPT !.position = @ + 1,
                                      !.last_repository_url = repository_url]
                /\ NoCandidate
           ELSE \/ /\ run' = [run EXCEPT !.position = @ + 1,
                                         !.last_repository_url = repository_url]
                   /\ requests' = <<Request("repos", NoFolder, name, 1, "ok")>>
                   /\ populate_row(RepositoryObjects[RepositoryNamed(repository_url[4], name)],
                           TRUE, FALSE, FALSE)
                \/ /\ run' = Aborted("HTTPError")
                   /\ requests' = <<Request("repos", NoFolder, name, 1, "HTTPError")>>
                   /\ UNCHANGED <<row, scan, repository, verify, classified, table,
                                  verification_failed_list, non_library_folders_list>>
    /\ TableOnly

\* lines 408-416: the index is through and the locals of
\* process_library_manager_index are gone; the first search begins
IndexDone ==
    /\ run.pc = "index"
    /\ Resting
    /\ run.position > Len(run.libraries)
    /\ run' = [StartWindow(1, 1) EXCEPT !.libraries = <<>>,
                                         !.position = 1,
                                         !.last_repository_url = <<>>]
    /\ NoCandidate
    /\ TableOnly

\* the retry loop asking the same page once more than the bound allows
SearchLoop_OneMore(incomplete_results, search_retry_count) ==
    IF incomplete_results /\ search_retry_count <= maximum_search_retries
    THEN "request" ELSE "accept"

\* line 771: the condition of the retry loop
SearchLoop(incomplete_results, search_retry_count) ==
    IF incomplete_results /\ search_retry_count < maximum_search_retries
    THEN "request" ELSE "accept"

\* lines 782-786: whether time.sleep(search_retry_delay) is called
Sleeps(json_data) == json_data.incomplete_results

\* lines 772-793: one request for the page and the branch on its answer
SearchRequest ==
    /\ run.pc = "request"
    /\ \/ \E response \in SearchResponses(run.query, run.window, run.page_number) :
            LET complete == /\ ~response.incomplete_results
                            /\ response.total_count # 0
                incomplete_results == IF complete THEN FALSE
                                      ELSE run.incomplete_results
            IN  run' = [run EXCEPT
                          !.search_retry_count = @ + 1,
                          !.json_data = response,
                          !.incomplete_results = incomplete_results,
                          !.pc = IF Sleeps(response) THEN "sleep"
                                 ELSE SearchLoop(incomplete_results,
                                                 run.search_retry_count + 1)]
       \/ run' = Aborted("HTTPError")
    /\ UNCHANGED <<row, table, verification_failed_list>>
    /\ UNCHANGED scannerVars
    /\ UNCHANGED <<verify>>
    /\ TableOnly

\* line 786, then the loop condition of line 771
Sleep ==
    /\ run.pc = "sleep"
    /\ run' = [run EXCEPT
                 !.pc = SearchLoop(run.incomplete_results, run.search_retry_count)]
    /\ UNCHANGED <<row, table, verification_failed_list>>
    /\ UNCHANGED scannerVars
    /\ UNCHANGED <<verify>>
    /\ TableOnly

\* the page after next
NextPage_SkipsOne(page_number) == page_number + 2

\* line 796
NextPage(page_number) == page_number + 1

\* lines 795-797: the page is taken as final
AcceptPage ==
    /\ run.pc = "accept"
    /\ run' = [run EXCEPT
                 !.additional_pages = run.json_data.additional_pages,
                 !.accepted = Append(@, run.page_number),
                 !.page_number = NextPage(@),
                 !.item = 1,
                 !.pc = "items"]
    /\ UNCHANGED <<row, table, verification_failed_list>>
    /\ UNCHANGED scannerVars
    /\ UNCHANGED <<verify>>
    /\ TableOnly

\* lines 797-803: the next item of the page goes to populate_row
PopulateItem ==
    /\ run.pc = "items"
    /\ Resting
    /\ run.item <= Len(run.json_data.items)
    /\ LET repository_object == run.json_data.items[run.item]
       IN  /\ run' = [run EXCEPT
                        !.search_results_count = @ + 1,
                        !.item = @ + 1,
                        !.handed = Append(@, repository_object.html_url)]
           /\ requests' = <<>>
           /\ populate_row(repository_object, FALSE, searches[run.query].verify,
                   searches[run.query].log_verification_failures)
    /\ TableOnly

\* the warning is given for every window whose total is reached too
maximum_results_reached_OrEqual(additional_pages, search_results_count, total_count) ==
    ~additional_pages /\ search_results_count <= total_count

\* line 805
maximum_results_reached(additional_pages, search_results_count, total_count) ==
    ~additional_pages /\ search_results_count < total_count

\* lines 805-813, 761, 756 and 411-450: after the last item of the page the
\* warning is given or not (run.warnings holds the search and the window of
\* every warning logged), then comes the next page, the next window, the
\* next search or the end
PageDone ==
    /\ run.pc = "items"
    /\ Resting
    /\ run.item > Len(run.json_data.items)
    /\ LET next == IF run.additional_pages
                   THEN [run EXCEPT !.pc = "request",
                                    !.json_data = <<>>,
                                    !.incomplete_results = TRUE,
                                    !.search_retry_count = 0,
                                    !.item = 0]
                   ELSE IF run.window < Len(searches[run.query].created_argument_list)
                   THEN StartWindow(run.query, run.window + 1)
                   ELSE IF run.query < Len(searches)
                   THEN StartWindow(run.query + 1, 1)
                   ELSE [run EXCEPT !.pc = "done"]
       IN  run' = IF maximum_results_reached(run.additional_pages,
                                             run.search_results_count,
                                             run.json_data.total_count)
                  THEN [next EXCEPT !.warnings =
                                        Append(@, <<run.query, run.window>>)]
                  ELSE next
    /\ NoCandidate
    /\ TableOnly

\* the deny-list compared without re.IGNORECASE
repository_name_is_blacklisted_CaseSensitive(name) ==
    \E i \in 1..Len(repository_name_blacklist) :
        fullmatch(repository_name_blacklist[i], name, FALSE)

\* lines 841-848
repository_name_is_blacklisted(name) ==
    \E i \in 1..Len(repository_name_blacklist) :
        fullmatch(repository_name_blacklist[i], name, TRUE)

\* lines 856-857
has_blacklisted_topic(topics) == topics \cap topic_blacklist # {}

\* no row is taken for a duplicate
is_duplicate_Never(rows, html_url) == FALSE

\* lines 868-869
is_duplicate(rows, html_url) ==
    \E i \in 1..Len(rows) : rows[i].repository_url = html_url

\* populate_row ends at a return statement
ReturnRow(outcome) == [row EXCEPT !.pc = "returned", !.outcome = outcome]

\* lines 837-881: the deny-lists, the duplicate check and the call of
\* find_library_folder
PopulateRowChecks ==
    /\ row.pc = "called"
    /\ LET repository_object == row.repository_object
       IN  IF row.verify /\ repository_name_is_blacklisted(repository_object.name)
           THEN /\ row' = ReturnRow("name blacklisted")
                /\ UNCHANGED <<scan, repository, verify>>
           ELSE IF row.verify /\ has_blacklisted_topic(repository_object.topics)
           THEN /\ row' = ReturnRow("topic blacklisted")
                /\ UNCHANGED <<scan, repository, verify>>
           ELSE IF is_duplicate(table, repository_object.html_url)
           THEN /\ row' = ReturnRow("duplicate")
                /\ UNCHANGED <<scan, repository, verify>>
           ELSE /\ row' = [row EXCEPT !.pc = "find_library_folder"]
                /\ repository' = repository_object.contents
                /\ verify' = row.verify
                /\ scan' = StartScan
    /\ UNCHANGED <<run, table, verification_failed_list>>
    /\ UNCHANGED <<requests, classified, non_library_folders_list>>
    /\ TableOnly

\* the line is written whatever the flag says
WriteVerificationFailure_Always(list, html_url, log_verification_failures) ==
    Append(list, html_url)

\* lines 886-893
WriteVerificationFailure(list, html_url, log_verification_failures) ==
    IF log_verification_failures THEN Append(list, html_url) ELSE list

\* an unverified candidate without a library folder is passed over
KeepsRow_OnlyWithFolder(library_folder, verify_argument) ==
    library_folder # NoFolder

\* lines 882-895: whether populate_row goes on to fill the row
KeepsRow(library_folder, verify_argument) ==
    library_folder # NoFolder \/ ~verify_argument

\* lines 882-897: find_library_folder has ended
PopulateRowVerdict ==
    /\ row.pc = "find_library_folder"
    /\ scan.pc = "done"
    /\ IF scan.outcome = "raised"
       THEN /\ row' = [row EXCEPT !.pc = "raised"]
            /\ run' = Aborted(scan.exception)
            /\ UNCHANGED verification_failed_list
       ELSE IF KeepsRow(scan.library_folder, row.verify)
       THEN /\ row' = [row EXCEPT
                         !.pc = "fill",
                         !.row_list.library_path =
                             IF scan.library_folder = NoFolder THEN <<>>
                             ELSE scan.library_folder]
            /\ UNCHANGED <<run, verification_failed_list>>
       ELSE /\ row' = ReturnRow("verification failed")
            /\ verification_failed_list' =
                 WriteVerificationFailure(verification_failed_list,
                                          row.repository_object.html_url,
                                          row.log_verification_failures)
            /\ UNCHANGED run
    /\ UNCHANGED table
    /\ UNCHANGED scannerVars
    /\ UNCHANGED <<verify>>
    /\ TableOnly

\* lines 899-967: the other cells are filled in, with the request for the
\* contributor count, whose JSONDecodeError and TimeoutError are caught,
\* and the request for the status of the tip; then the row goes to the table
PopulateRowFill ==
    /\ row.pc = "fill"
    /\ LET repository_object == row.repository_object
           row_list == [row.row_list EXCEPT
                           !.repository_url = repository_object.html_url,
                           !.repository_name = repository_object.name,
                           !.in_library_manager_index =
                               IF row.in_library_manager THEN "True" ELSE "False"]
       IN  \/ \E contributors \in {"ok", "TimeoutError"} :
                /\ requests' = requests \o
                     << Request("contributors", NoFolder, repository_object.name,
                                1, contributors),
                        Request("status", NoFolder, repository_object.name, 1, "ok") >>
                /\ table' = Append(table, row_list)
                /\ row' = [ReturnRow("appended") EXCEPT !.row_list = row_list]
                /\ UNCHANGED run
           \/ /\ requests' = Append(requests,
                     Request("contributors", NoFolder, repository_object.name,
                             1, "HTTPError"))
              /\ row' = [row EXCEPT !.pc = "raised"]
              /\ run' = Aborted("HTTPError")
              /\ UNCHANGED table
           \/ /\ requests' = requests \o
                     << Request("contributors", NoFolder, repository_object.name,
                                1, "ok"),
                        Request("status", NoFolder, repository_object.name,
                                1, "HTTPError") >>
              /\ row' = [row EXCEPT !.pc = "raised"]
              /\ run' = Aborted("HTTPError")
              /\ UNCHANGED table
    /\ UNCHANGED <<verification_failed_list, verify>>
    /\ UNCHANGED <<repository, scan, classified, non_library_folders_list>>
    /\ TableOnly

NextTable ==
    \/ ProcessLibraryManagerIndex
    \/ IndexDone
    \/ SearchRequest
    \/ Sleep
    \/ AcceptPage
    \/ PopulateItem
    \/ PageDone
    \/ PopulateRowChecks
    \/ NextFolder
    \/ PopulateRowVerdict
    \/ PopulateRowFill

SpecTable == InitTable /\ [][NextTable]_vars

(***************************************************************************)
(* The created arguments of one search applied, one after another, to a    *)
(* repository created on a given day.                                      *)
(***************************************************************************)

\* the windows of the list that hold the day
MatchingWindows(created_argument_list, date) ==
    { window \in 1..Len(created_argument_list) :
        InWindow(created_argument_list[window], date) }

InitWindows ==
    /\ AccessIdle
    /\ folder_listing = <<>>
    /\ library_found = "pending"
    /\ verify = FALSE
    /\ ScannerIdle
    /\ table = <<heading_row>>
    /\ verification_failed_list = <<>>
    /\ row = [pc |-> "idle"]
    /\ output_file = [exists |-> FALSE, rows |-> <<>>]
    /\ run \in { [pc |-> "windows", query |-> query, created_at |-> date,
                  window |-> 0, found_in |-> {}] :
                    query \in 1..Len(searches), date \in Days }

\* the loop of line 756 reaches the next created argument and the remote
\* applies it
ApplyWindow ==
    /\ run.pc = "windows"
    /\ run.window < Len(searches[run.query].created_argument_list)
    /\ LET window == run.window + 1
       IN  run' = [run EXCEPT
                     !.window = window,
                     !.found_in =
                        @ \cup (MatchingWindows(
                                    searches[run.query].created_argument_list,
                                    run.created_at) \cap {window})]
    /\ UNCHANGED <<row, table, verification_failed_list, verify>>
    /\ UNCHANGED scannerVars
    /\ TableOnly

NextWindows == ApplyWindow

SpecWindows == InitWindows /\ [][NextWindows]_vars

(***************************************************************************)
(* Claims about search_repositories, the windows and populate_row.         *)
(***************************************************************************)

\* search_repositories is running
InSearch == run.pc \in {"request", "sleep", "accept", "items"}

\* the windows of the three searches in the order populate_table gives them
AllWindows ==
    LET WindowsOf(query) ==
            [window \in 1..Len(searches[query].created_argument_list) |->
                <<query, window>>]
    IN  WindowsOf(1) \o WindowsOf(2) \o WindowsOf(3)

\* the URLs of the first n results of the window in hand
FirstResults(n) ==
    LET results == SearchResults(run.query, run.window)
        m == IF n < Len(results) THEN n ELSE Len(results)
    IN  [i \in 1..m |-> results[i].html_url]

\* C25: within a window the accepted pages are 1, 2, 3, ... in this order,
\* without a gap and without a return; the items of a page go to
\* populate_row in the order received and all of them before the next page
\* is requested; the windows are entered in the order of the window list.
C25_PagesAndItemsInOrder ==
    InSearch
    => /\ run.started = SubSeq(AllWindows, 1, Len(run.started))
       /\ run.started[Len(run.started)] = <<run.query, run.window>>
       /\ run.accepted = [i \in 1..Len(run.accepted) |-> i]
       /\ run.page_number = Len(run.accepted) + 1
       /\ run.pc \in {"request", "sleep", "accept"}
            => /\ Resting
               /\ run.handed = FirstResults(Len(run.accepted) * MaxPerPage)
       /\ run.pc = "items"
            => run.handed = FirstResults((Len(run.accepted) - 1) * MaxPerPage
                                         + run.item - 1)

C25_Witness ==
    /\ run.pc = "items"
    /\ run.query = 2
    /\ run.window = 8
    /\ run.accepted = <<1, 2>>
    /\ run.handed = <<"https://github.com/o/Talkie", "https://github.com/o/Arduino">>
    /\ row.pc = "returned"
    /\ Len(run.started) = 10

\* the response is complete and holds results
Final(json_data) ==
    /\ ~json_data.incomplete_results
    /\ json_data.total_count # 0

C26_State ==
    InSearch
    => /\ run.search_retry_count \in 0..maximum_search_retries
       /\ run.pc \in {"sleep", "accept", "items"} => run.search_retry_count >= 1
       /\ run.pc = "request" => run.search_retry_count < maximum_search_retries
       /\ run.pc = "sleep" => run.json_data.incomplete_results
       /\ run.pc \in {"accept", "items"}
            => \/ Final(run.json_data)
               \/ run.search_retry_count = maximum_search_retries
       /\ run.json_data # <<>>
            => /\ Final(run.json_data) => run.pc \in {"accept", "items"}
               /\ (/\ ~run.json_data.incomplete_results
                   /\ run.json_data.total_count = 0)
                     => run.pc # "sleep"

C26_Step ==
    /\ (run.pc = "request" /\ run'.pc # "aborted")
          => /\ run'.search_retry_count = run.search_retry_count + 1
             /\ run'.page_number = run.page_number
             /\ run'.window = run.window
             /\ run'.pc = "sleep" <=> run'.json_data.incomplete_results
    /\ (run.pc = "sleep")
          => /\ run'.search_retry_count = run.search_retry_count
             /\ run'.pc \in {"request", "accept"}
    /\ (run.pc \in {"accept", "items"} /\ run.json_data.total_count = 0
        /\ Resting)
          => run'.pc \in {"items", "request", "done"}

C27_WindowsPartitionTheDays ==
    /\ \A query \in 1..Len(searches) :
          LET list == searches[query].created_argument_list
          IN  /\ list[1].op = "<="
              /\ list[Len(list)].op = ">="
              /\ \A window \in 2..(Len(list) - 1) :
                    /\ list[window].op = ".."
                    /\ NotAfter(list[window].from, list[window].to)
              /\ \A window \in 2..Len(list) :
                    list[window].from = NextDay(list[window - 1].to)
    /\ run.pc = "windows"
          => LET list == searches[run.query].created_argument_list
             IN  /\ Cardinality(MatchingWindows(list, run.created_at)) = 1
                 /\ Cardinality(run.found_in) <= 1
                 /\ run.window = Len(list) => Cardinality(run.found_in) = 1

C27_Witness ==
    /\ run.pc = "windows"
    /\ run.query = 3
    /\ run.created_at = <<2016, 2, 29>>
    /\ run.window = Len(searches[3].created_argument_list)
    /\ run.found_in = {6}

\* C28: the table never holds two rows with the same repository URL; a
\* candidate whose URL is in the table leaves populate_row with the table
\* as it was and without any request of populate_row; an index entry equal
\* to the entry before it is passed over without any request.
C28_NoDuplicateRows ==
    /\ \A i, j \in 1..Len(table) :
          i # j => table[i].repository_url # table[j].repository_url
    /\ (row.pc = "returned" /\ row.outcome = "duplicate")
          => /\ \E i \in 1..Len(table) :
                   table[i].repository_url = row.repository_object.html_url
             /\ \A i \in 1..Len(requests) : requests[i].api = "repos"
             /\ classified = <<>>
             /\ scan.pc = "idle"
    /\ (/\ run.pc = "index"
        /\ run.position >= 3
        /\ run.libraries[run.position - 1] = run.libraries[run.position - 2])
          => /\ requests = <<>>
             /\ row.pc = "idle"

C28_Witness ==
    /\ row.pc = "returned"
    /\ row.outcome = "duplicate"
    /\ row.verify
    /\ run.query = 2
    /\ row.repository_object.html_url = "https://github.com/o/Talkie"
    /\ table[2].repository_url = "https://github.com/o/Talkie"
    /\ table[2].in_library_manager_index = "True"
    /\ requests = <<>>

\* find_library_folder has returned None to populate_row
NoLibraryFolder ==
    /\ row.pc = "find_library_folder"
    /\ scan.pc = "done"
    /\ scan.outcome = "returned"
    /\ scan.library_folder = NoFolder

C29_Step ==
    /\ (NoLibraryFolder /\ row.verify)
          => /\ table' = table
             /\ row'.pc = "returned"
             /\ verification_failed_list' =
                   IF row.log_verification_failures
                   THEN Append(verification_failed_list,
                               row.repository_object.html_url)
                   ELSE verification_failed_list
    /\ verification_failed_list' # verification_failed_list
          => /\ NoLibraryFolder
             /\ row.verify
             /\ row.log_verification_failures
             /\ SubSeq(verification_failed_list', 1,
                       Len(verification_failed_list)) = verification_failed_list

\* C29: with verification on, a candidate for which find_library_folder
\* returns None is not appended to the table; in the same step its URL is
\* appended to the verification-failure list when log_verification_failures
\* is set and nothing is written when it is not; the list changes in no
\* other step and the lines it holds stay as they are.
C29_VerificationFailureLogged == [][C29_Step]_vars

C29_Witness ==
    /\ row.pc = "returned"
    /\ row.outcome = "verification failed"
    /\ row.log_verification_failures
    /\ scan.library_folder = NoFolder
    /\ verification_failed_list = <<"https://github.com/o/main">>
    /\ \A i \in 1..Len(table) :
          table[i].repository_url # "https://github.com/o/main"

\* C30: with verification off, a candidate that is not a duplicate and for
\* which find_library_folder returns None has its row filled with an empty
\* library path, and when populate_row returns the row is the last of the
\* table.
C30_UnverifiedRowWithoutFolder ==
    (/\ row.pc \in {"fill", "returned"}
     /\ ~row.verify
     /\ scan.pc = "done"
     /\ scan.outcome = "returned"
     /\ scan.library_folder = NoFolder)
    => /\ row.row_list.library_path = <<>>
       /\ row.pc = "returned"
            => /\ row.outcome = "appended"
               /\ table[Len(table)] = row.row_list
               /\ table[Len(table)].repository_url = row.repository_object.html_url
               /\ table[Len(table)].library_path = <<>>

C30_Witness ==
    /\ row.pc = "returned"
    /\ row.outcome = "appended"
    /\ ~row.verify
    /\ scan.pc = "done"
    /\ scan.library_folder = NoFolder
    /\ Len(table) = 2
    /\ table[2].repository_url = "https://github.com/o/main"
    /\ table[2].library_path = <<>>
    /\ table[2].in_library_manager_index = "True"

\* the candidate in hand is on one of the two deny-lists of populate_row
DenyListedCandidate ==
    \/ \E i \in 1..Len(repository_name_blacklist) :
          fullmatch(repository_name_blacklist[i], row.repository_object.name, TRUE)
    \/ row.repository_object.topics \cap topic_blacklist # {}

C31_State ==
    row.pc \in {"find_library_folder", "fill", "returned", "raised"}
    => /\ (row.verify /\ DenyListedCandidate)
            => /\ row.pc = "returned"
               /\ row.outcome \in {"name blacklisted", "topic blacklisted"}
               /\ requests = <<>>
               /\ classified = <<>>
               /\ scan.pc = "idle"
       /\ (row.pc = "returned"
           /\ row.outcome \in {"name blacklisted", "topic blacklisted"})
            => (row.verify /\ DenyListedCandidate)

C31_Step ==
    (row.pc = "called" /\ DenyListedCandidate)
    => /\ table' = table
       /\ verification_failed_list' = verification_failed_list
       /\ requests' = requests
       /\ row.verify => row'.pc = "returned"
       /\ ~row.verify
            => \/ row'.pc = "find_library_folder"
               \/ row'.pc = "returned" /\ row'.outcome = "duplicate"

\* C31: with verification on, a candidate whose name fully matches a pattern
\* of the repository-name deny-list, whatever the letter case, or that has a
\* deny-listed topic leaves populate_row at once: no row, no line in the
\* verification-failure list, no request; with verification off such a
\* candidate goes on to the duplicate check and to find_library_folder.
C31_DenyListedCandidateSkipped == []C31_State /\ [][C31_Step]_vars

C31_Witness ==
    /\ row.pc = "returned"
    /\ row.outcome = "name blacklisted"
    /\ row.repository_object.name = <<"A", "r", "d", "u", "i", "n", "o">>
    /\ run.query = 2
    /\ \E i \in 1..Len(table) :
          /\ table[i].repository_url = "https://github.com/o/Arduino"
          /\ table[i].in_library_manager_index = "False"
    /\ \E i \in 1..Len(table) :
          table[i].repository_url = "https://github.com/o/dac"

\* C32: a request of populate_row that fails for good does not end the run:
\* populate_table is never left by an exception that populate_row raised.
C32_CandidateFailureNeverAborts ==
    ~(/\ run.pc = "aborted"
      /\ row.pc = "raised"
      /\ Len(requests) >= 1
      /\ requests[Len(requests)].api = "status"
      /\ requests[Len(requests)].outcome = "HTTPError")

\* C40: no request is made for a root subdirectory named android, and
\* find_library is never applied to it.
C40_AndroidNeverScanned ==
    /\ \A i \in SubfolderRequests :
            requests[i].folder # <<"a", "n", "d", "r", "o", "i", "d">>
    /\ \A i \in SubfoldersClassified :
            classified[i].folder # <<"a", "n", "d", "r", "o", "i", "d">>

\* the failures of a subfolder request the statement is about
SubfolderFailures == {"HTTPError", "JSONDecodeError", "TimeoutError"}

\* the last request was for a page of a subfolder and ended in such a failure
SubfolderRequestFailed(all) ==
    /\ all # <<>>
    /\ all[Len(all)].api = "contents"
    /\ all[Len(all)].folder # root_folder
    /\ all[Len(all)].outcome \in SubfolderFailures

\* the entries of the pages of the subfolder that came before that request
ReceivedBefore(request) ==
    Flatten(SubSeq(repository.contents[request.folder], 1, request.page - 1))

C37_Step ==
    /\ (Len(requests') = Len(requests) + 1 /\ SubfolderRequestFailed(requests')) =>
            /\ scan'.pc = "sub_classify"
            /\ scan'.position = scan.position
            /\ scan'.subfolder_listing = ReceivedBefore(requests'[Len(requests')])
    /\ (scan.pc = "sub_classify" /\ SubfolderRequestFailed(requests)) =>
            LET failed == requests[Len(requests)]
                found == find_library(ReceivedBefore(failed), verify)
            IN  /\ root_folder_item.name = failed.folder
                /\ classified' = Append(classified,
                        [folder |-> failed.folder, library_found |-> found])
                /\ IF found = "True"
                   THEN /\ scan'.pc = "done"
                        /\ scan'.outcome = "returned"
                        /\ scan'.library_folder = failed.folder
                   ELSE /\ scan'.pc = "loop"
                        /\ scan'.position = scan.position + 1

\* C37: when a request for a page of a subfolder listing ends in an HTTP
\* error, an undecodable payload or a TimeoutError, the call does not end in
\* an exception: the subfolder is classified on the entries of the pages
\* received before, and unless that makes it the library folder the loop goes
\* on with the next entry of the root listing.
C37_SubfolderFailureIsLocal == [][C37_Step]_vars

\* the second page of one subfolder failed, the subfolder was classified on
\* its first page, and the scan went on to request the next subfolder
C37_Witness ==
    \E i \in 1..Len(requests) :
        /\ requests[i].api = "contents"
        /\ requests[i].folder # root_folder
        /\ requests[i].page = 2
        /\ requests[i].outcome = "HTTPError"
        /\ i < Len(requests)
        /\ requests[i + 1].api = "contents"
        /\ requests[i + 1].folder # requests[i].folder
        /\ requests[i + 1].outcome = "ok"
        /\ \E j \in 1..Len(classified) :
              /\ classified[j].folder = requests[i].folder
              /\ classified[j].library_found # "True"

\* the request for the library.json of the root had that outcome
RootLibraryDotJson(outcome) ==
    /\ Len(requests) >= 2
    /\ requests[2] = Request("raw", root_folder, library_dot_json, 0, outcome)

\* C38: a library.json in the root whose payload cannot be decoded counts as
\* found: find_library_folder returns "/" without a request for a contents
\* listing, and the library.json cells of the row stay blank; a request that
\* failed (HTTP error or retries used up) counts as not found, so that
\* without a library.properties the call goes on to its next step.
C38_UndecodableLibraryDotJsonCounts ==
    /\ RootLibraryDotJson("undecodable") =>
            /\ Returned
            /\ scan.library_folder = root_folder
            /\ Len(requests) = 2
            /\ ContentsRequests = {}
            /\ ~scan.platformio_filled
    /\ RootLibraryDotJson("missing") =>
            /\ ~scan.platformio_filled
            /\ requests[1].outcome = "ok" =>
                    (Returned /\ scan.library_folder = root_folder)
            /\ (requests[1].outcome = "missing" /\ Len(requests) = 2) =>
                    scan.pc = (IF verify THEN "root_fetch" ELSE "probe_header")
            /\ (requests[1].outcome = "missing" /\ Returned
                    /\ scan.library_folder = root_folder) => Len(requests) > 2
    /\ RootLibraryDotJson("ok") =>
            /\ Returned
            /\ scan.library_folder = root_folder
            /\ scan.platformio_filled

\* there is no library.properties and the library.json cannot be decoded:
\* the call has returned "/"
C38_Witness ==
    /\ RootLibraryDotJson("undecodable")
    /\ requests[1].outcome = "missing"
    /\ Returned
    /\ scan.library_folder = root_folder
    /\ verify

(***************************************************************************)
(* check_rate_limiting once it has asked the rate_limit endpoint.  The     *)
(* interpreter keeps running the program, so a step that can be taken is   *)
(* taken in the end.                                                       *)
(***************************************************************************)
FairSpec == Spec /\ WF_vars(Next)

\* a rate_limit answer has come back to the check_rate_limiting call on top
StatusReported ==
    /\ Running("check_rate_limiting", "update")
    /\ ret.kind = "return"

\* the frames from k up are check_rate_limiting calls, each waiting for the
\* one above it, and k is the outermost of them
WaitingNest(k) ==
    /\ k <= Len(stack)
    /\ \A i \in k..Len(stack) : stack[i].fn = "check_rate_limiting"
    /\ \A i \in k..(Len(stack) - 1) : stack[i].pc = "return"
    /\ k > 1 => stack[k - 1].fn # "check_rate_limiting"

C36_Step ==
    /\ StatusReported =>
        LET reported == ret.result.json_data
        IN  /\ last_api_requests_remaining_value' =
                    [search |-> reported.search, core |-> reported.core]
            /\ reported[Top.api_type] > 0 =>
                    /\ stack' = Popped
                    /\ ret'.kind = "return"
                    /\ ret'.from = "check_rate_limiting"
            /\ reported[Top.api_type] = 0 =>
                    /\ Len(stack') = Len(stack)
                    /\ stack'[Len(stack)].fn = "check_rate_limiting"
                    /\ stack'[Len(stack)].pc = "wait"
    /\ Running("check_rate_limiting", "wait") /\ Len(stack) < MaxDepth =>
            /\ last_api_requests_remaining_value[Top.api_type] = 0
            /\ UNCHANGED last_api_requests_remaining_value
            /\ Len(stack') = Len(stack) + 1
            /\ stack'[Len(stack')].fn = "check_rate_limiting"
            /\ stack'[Len(stack')].pc = "start"
            /\ stack'[Len(stack')].api_type = Top.api_type
    /\ Running("check_rate_limiting", "start") /\ Len(stack) < MaxDepth
        /\ last_api_requests_remaining_value[Top.api_type] = 0 =>
            /\ Len(stack') = Len(stack) + 1
            /\ stack'[Len(stack')].fn = "get_json_from_url"
            /\ stack'[Len(stack')].url = rate_limit_url
    /\ (/\ stack # <<>>
        /\ Top.fn = "check_rate_limiting"
        /\ Top.asked
        /\ stack' = Popped
        /\ ret'.kind = "return") =>
            \/ StatusReported /\ ret.result.json_data[Top.api_type] > 0
            \/ /\ Top.pc = "return"
               /\ ret.kind = "return"
               /\ ret.from = "check_rate_limiting"

\* C36: a check_rate_limiting call that asked the rate_limit endpoint takes
\* both cached values from every answer; on an answer of 0 for its class it
\* waits and then calls itself, and that call asks again; on an answer above
\* 0 it returns at once, and it returns in no other way than by such an
\* answer to itself or to the call it waits for.  Once an answer above 0 has
\* come, the call and all the calls waiting for it return.
C36_BlocksWhileBudgetIsZero ==
    /\ [][C36_Step]_vars
    /\ \A k \in 1..MaxDepth :
          (WaitingNest(k) /\ StatusReported
                /\ ret.result.json_data[Top.api_type] > 0)
            ~> (/\ Len(stack) = k - 1
                /\ ret.kind = "return"
                /\ ret.from = "check_rate_limiting")

\* after an answer of 0 and the wait, the second answer showed requests
\* left for the class asked about, none for the other: the inner call has
\* returned to the outer one
C36_Witness ==
    /\ Len(stack) >= 2
    /\ Top.fn = "check_rate_limiting"
    /\ Top.pc = "return"
    /\ Top.api_type = "search"
    /\ ret.kind = "return"
    /\ ret.from = "check_rate_limiting"
    /\ ret.asked
    /\ last_api_requests_remaining_value = [search |-> 1, core |-> 0]

\* the handler of a failed attempt is at work on a failure other than the
\* one of line 33, in determine_urlopen_retry or back in get_json_from_url
HandlingOtherFailure ==
    /\ stack # <<>>
    /\ \/ Top.fn = "determine_urlopen_retry"
       \/ Running("get_json_from_url", "except")
    /\ Top.exception # "HTTP503"

C39_Step ==
    /\ last_api_requests_remaining_value' # last_api_requests_remaining_value =>
            \/ /\ Running("get_json_from_url", "urlopen")
               /\ ret'.kind = "return"
               /\ ret'.from = "get_json_from_url"
               /\ is_api_url(Top.url)
            \/ StatusReported
    /\ (Running("get_json_from_url", "urlopen")
            /\ Len(stack') = Len(stack) + 1
            /\ stack'[Len(stack')].fn = "determine_urlopen_retry") =>
            UNCHANGED last_api_requests_remaining_value
    /\ HandlingOtherFailure =>
            /\ UNCHANGED last_api_requests_remaining_value
            /\ Len(stack') <= Len(stack)

\* C39: an attempt of get_json_from_url that fails with anything but the
\* failure that calls for the rate check leaves both cached values as they
\* were, through the whole of its handling, and no rate check is made for
\* it; the cached values change only when a response of the API was decoded
\* or when check_rate_limiting takes the answer of the rate_limit endpoint.
C39_FailedAttemptKeepsCache == [][C39_Step]_vars

\* both cached values were above 0 when a payload failed to decode, and
\* they still are after the call has raised
C39_Witness ==
    /\ stack = <<>>
    /\ ret.kind = "raise"
    /\ ret.from = "get_json_from_url"
    /\ ret.exception = "JSONDecodeError"
    /\ last_api_requests_remaining_value = [search |-> 1, core |-> 1]

\* the last page of the window has been processed
LastPageProcessed ==
    /\ run.pc = "items"
    /\ Resting
    /\ run.item > Len(run.json_data.items)
    /\ ~run.additional_pages

C35_Step ==
    /\ LastPageProcessed /\ Len(run.handed) < run.json_data.total_count
        => run'.warnings = Append(run.warnings, <<run.query, run.window>>)
    /\ LastPageProcessed /\ Len(run.handed) = run.json_data.total_count
        => run'.warnings = run.warnings
    /\ ~LastPageProcessed /\ run.pc # "idle" /\ run'.pc # "aborted"
        => run'.warnings = run.warnings

\* C35: when the last page of a window has been processed and fewer items
\* were retrieved over the pages of the window than the total the remote
\* reports for it, the maximum-results warning is logged for that window;
\* when as many were retrieved as reported, and at every other step, no
\* warning is logged.
C35_MaximumResultsWarning == [][C35_Step]_vars

\* the window of the second search that holds three repositories has given
\* its warning, the windows before it, whose totals were reached, none
C35_Witness ==
    /\ run.pc = "request"
    /\ run.query = 2
    /\ run.window = 9
    /\ run.warnings = << <<2, 8>> >>
    /\ Len(run.started) > 9

(***************************************************************************)
(* create_output_file, lines 1436-1461: the table is sorted in place and   *)
(* written over the output file, unless it holds the heading row alone.    *)
(* The rows are those populate_row appends for the repositories of the     *)
(* remote; their fields hold no delimiter, so that csv.writer writes each  *)
(* row as it stands.                                                       *)
(***************************************************************************)
MaxRows == 3

\* the first column of every row there is, in the order of str
url_order ==
    << "Repository URL",
       "https://github.com/o/Arduino",
       "https://github.com/o/Talkie",
       "https://github.com/o/dac",
       "https://github.com/o/hardware",
       "https://github.com/o/main" >>

\* the row populate_row appends for a repository found in its root folder
RowOf(repository_object) ==
    [repository_url |-> repository_object.html_url,
     repository_name |-> repository_object.name,
     library_path |-> root_folder,
     in_library_manager_index |-> "False"]

DataRows == { RowOf(RepositoryObjects[i]) : i \in 1..Len(RepositoryObjects) }

\* the tables populate_table can leave: the heading row, then distinct rows
\* in the order they were appended
Tables ==
    { <<heading_row>> \o rows :
        rows \in { r \in UNION { [1..n -> DataRows] : n \in 0..MaxRows } :
                     \A i, j \in 1..Len(r) : r[i] = r[j] => i = j } }

\* what the output folder can hold before the run: nothing, or the file of
\* an earlier run
EarlierFiles ==
    { [exists |-> FALSE, rows |-> <<>>],
      [exists |-> TRUE, rows |-> <<heading_row>>],
      [exists |-> TRUE,
       rows |-> <<heading_row, RowOf(RepositoryObjects[1])>>] }

list_count_WithHeading(list) == Len(list)

\* line 1441
list_count(list) == Len(list) - 1

\* the place of a row in the order of list.sort(): the rows differ in
\* their first column
Before(a, b) ==
    \E i, j \in 1..Len(url_order) :
        /\ url_order[i] = a.repository_url
        /\ url_order[j] = b.repository_url
        /\ i <= j

RECURSIVE sort(_)
\* line 1449
sort(list) ==
    IF list = <<>> THEN <<>>
    ELSE LET first == CHOOSE i \in 1..Len(list) :
                        \A j \in 1..Len(list) : Before(list[i], list[j])
         IN  <<list[first]>>
                \o sort([k \in 1..(Len(list) - 1) |->
                            IF k < first THEN list[k] ELSE list[k + 1]])

InitOutput ==
    /\ AccessIdle
    /\ folder_listing = <<>>
    /\ library_found = "pending"
    /\ verify = FALSE
    /\ ScannerIdle
    /\ table \in Tables
    /\ verification_failed_list = <<>>
    /\ row = [pc |-> "idle"]
    /\ run = [pc |-> "output"]
    /\ output_file \in EarlierFiles

\* lines 1436-1461
CreateOutputFile ==
    /\ run.pc = "output"
    /\ run' = [pc |-> "exit"]
    /\ IF list_count(table) = 0
       THEN UNCHANGED <<table, output_file>>
       ELSE /\ table' = sort(table)
            /\ output_file' = [exists |-> TRUE, rows |-> sort(table)]
    /\ UNCHANGED <<row, verification_failed_list, verify>>
    /\ UNCHANGED scannerVars
    /\ UNCHANGED accessVars
    /\ UNCHANGED <<folder_listing, library_found>>

NextOutput == CreateOutputFile

SpecOutput == InitOutput /\ [][NextOutput]_vars

C33_Step ==
    run.pc = "output" /\ run'.pc = "exit" =>
        IF Len(table) >= 2
        THEN /\ output_file'.exists
             /\ output_file'.rows = table'
             /\ Len(table') = Len(table)
             /\ \A i \in 1..Len(table) : \E j \in 1..Len(table') : table'[j] = table[i]
             /\ \A i, j \in 1..Len(table') :
                    i < j => Before(table'[i], table'[j])
        ELSE UNCHANGED <<output_file, table>>

\* C33: create_output_file writes the output file, over whatever was there,
\* exactly when the table holds a row besides the heading row: the file then
\* holds the rows of the table in the order of their first column; with the
\* heading row alone the file is left as it was, absent or not.
C33_OutputFileOnlyWithRows == [][C33_Step]_vars

\* two rows appended out of order were written over the file of an earlier
\* run
C33_Witness ==
    /\ run.pc = "exit"
    /\ Len(table) = 3
    /\ table[2].repository_url = "https://github.com/o/Arduino"
    /\ table[3].repository_url = "https://github.com/o/main"
    /\ output_file = [exists |-> TRUE, rows |-> table]

(***************************************************************************)
(* normalize_url, lines 704-717, applied to URLs whose path is any         *)
(* sequence of separators, letters and spaces.                             *)
(***************************************************************************)
MaxPath == 6

PathTokens == {"/", "a", " "}

Paths == UNION { [1..n -> PathTokens] : n \in 0..MaxPath }

InitUrl ==
    /\ AccessIdle
    /\ folder_listing = <<>>
    /\ library_found = "pending"
    /\ verify = FALSE
    /\ ScannerIdle
    /\ table = <<heading_row>>
    /\ verification_failed_list = <<>>
    /\ row = [pc |-> "idle"]
    /\ output_file = [exists |-> FALSE, rows |-> <<>>]
    /\ run \in { [pc |-> "normalize_url", url |-> Url("http://example.org", path)] :
                    path \in Paths }

NormalizeUrl ==
    /\ run.pc = "normalize_url"
    /\ run' = [pc |-> "normalized", url |-> run.url,
               result |-> normalize_url(run.url)]
    /\ UNCHANGED <<row, table, verification_failed_list, verify>>
    /\ UNCHANGED scannerVars
    /\ TableOnly

NextUrl == NormalizeUrl

SpecUrl == InitUrl /\ [][NextUrl]_vars

\* C34: the path normalize_url returns holds no two separators in a row,
\* whatever the length of the runs of separators in the path it is given.
C34_NoDuplicateSeparators ==
    run.pc = "normalized" =>
        \A i \in 1..(Len(run.result.path) - 1) :
            ~(run.result.path[i] = "/" /\ run.result.path[i + 1] = "/")

\* what the code does keep: a run of up to four separators becomes one
C34_RunsUpToFourCollapsed ==
    run.pc = "normalized"
        /\ (\A i \in 1..(Len(run.url.path) - 4) :
                \E k \in 0..4 : run.url.path[i + k] # "/")
    => \A i \in 1..(Len(run.result.path) - 1) :
            ~(run.result.path[i] = "/" /\ run.result.path[i + 1] = "/")

====
